---- MODULE Spec2Model ----
(***************************************************************************)
(* Model of the financial normalization and risk analysis engine of        *)
(* kcloanapp: modules/projections.py, modules/data_processing.py,          *)
(* modules/risk_models.py and modules/financial_analysis.py.               *)
(*                                                                         *)
(* Numbers are exact rationals [n |-> numerator, d |-> denominator > 0] in *)
(* lowest terms; the source computes in IEEE doubles, so a property that   *)
(* holds here holds of the source up to floating-point rounding.  A Python *)
(* exception is modelled as a result whose field raised names it.          *)
(***************************************************************************)
EXTENDS Integers, Sequences, FiniteSets, TLC

VARIABLES
    \* ---- FinancialProjections (modules/projections.py) and its caller
    historical_data,      \* self.historical_data
    assumptions,          \* self.assumptions
    loan_amount,          \* loan parameters of the run
    interest_rate,        \* annual rate, percent
    repayment_period,     \* months
    periods,              \* projected years
    repayment_schedule,   \* result of calculate_loan_repayment_schedule
    income_projections,   \* result of project_income_statement
    balance_projections,  \* result of project_balance_sheet
    cashflow_projections, \* result of project_cash_flow
    dscr_analysis,        \* result of calculate_debt_service_coverage_ratio
    session_state,        \* st.session_state: the values stored under their keys
    runs,                 \* how many times the projections button was pressed
    report_input,         \* loan amount and core capital entered on the reports page
    proj_pc,              \* position in the projection run
    \* ---- DataProcessor (modules/data_processing.py) and its caller
    df,                   \* the uploaded table
    cleaned_data,         \* result of clean_financial_data
    statement_type,       \* result of detect_financial_statement_type
    data_pc,              \* position in the file's pipeline
    \* ---- RiskModels (modules/risk_models.py)
    altman_input,         \* arguments of altman_z_score
    z_score,              \* its result
    financial_ratios,     \* the ratio set passed to machine_learning_credit_scoring
    ml_score,             \* its result
    merton_input,         \* arguments of merton_structural_model
    merton_output,        \* its result
    np_random,            \* state of numpy's global random generator
    mc_input,             \* arguments of the latest monte_carlo_cashflow_simulation
    mc_output,            \* its result
    mc_first,             \* arguments and result of the first simulation of the session
    \* ---- FinancialAnalyzer (modules/financial_analysis.py)
    financial_data,       \* the metric set passed to comprehensive_ratio_analysis
    ratios,               \* its result
    benchmark_ratios,     \* the ratio bundle passed to assess_against_benchmarks
    assessment,           \* its result
    \* ---- DataProcessor.process_uploaded_files and its caller
    uploaded_files,       \* the batch: each file has a name and parses or fails
    processed_data,       \* result entries keyed by file name
    errors,               \* error messages
    file_index,           \* the file the loop is at
    attempted,            \* indices of the files the loop has taken up
    upload_pc,            \* position in process_uploaded_files
    \* ---- DataProcessor.validate_financial_data and extract_financial_metrics
    metrics_df,           \* the cleaned table passed to both
    metrics_type,         \* the statement type passed to both
    validation,           \* result of validate_financial_data
    metrics,              \* result of extract_financial_metrics
    metrics_pc            \* position in the caller

proj_vars == <<historical_data, assumptions, loan_amount, interest_rate,
               repayment_period, periods, repayment_schedule,
               income_projections, balance_projections, cashflow_projections,
               dscr_analysis, session_state, runs, report_input, proj_pc>>

data_vars == <<df, cleaned_data, statement_type, data_pc>>

altman_vars == <<altman_input, z_score, financial_ratios, ml_score, merton_input,
                 merton_output>>

mc_vars == <<np_random, mc_input, mc_output, mc_first>>

ratio_vars == <<financial_data, ratios, benchmark_ratios, assessment>>

upload_vars == <<uploaded_files, processed_data, errors, file_index, attempted, upload_pc>>

metrics_vars == <<metrics_df, metrics_type, validation, metrics, metrics_pc>>

vars == <<proj_vars, data_vars, altman_vars, mc_vars, ratio_vars, upload_vars, metrics_vars>>

NotProj == <<data_vars, altman_vars, mc_vars, ratio_vars, upload_vars, metrics_vars>>
NotData == <<proj_vars, altman_vars, mc_vars, ratio_vars, upload_vars, metrics_vars>>
NotAltman == <<proj_vars, data_vars, mc_vars, ratio_vars, upload_vars, metrics_vars>>
NotMonteCarlo == <<proj_vars, data_vars, altman_vars, ratio_vars, upload_vars, metrics_vars>>
NotRatios == <<proj_vars, data_vars, altman_vars, mc_vars, upload_vars, metrics_vars>>
NotUpload == <<proj_vars, data_vars, altman_vars, mc_vars, ratio_vars, metrics_vars>>
NotMetrics == <<proj_vars, data_vars, altman_vars, mc_vars, ratio_vars, upload_vars>>

-----------------------------------------------------------------------------
(* Bounds of the model *)

MaxPrincipal == 4
MaxTerm == 3
MaxPeriods == 2
MaxCols == 4
MaxRows == 1
MaxAssets == 2
MaxMCPeriods == 2
MaxSimulations == 2
MaxFiles == 2
MaxMetricCols == 3
MaxMetricRows == 2
MaxRuns == 2

-----------------------------------------------------------------------------
(* Exact rational arithmetic standing for Python float arithmetic *)

RECURSIVE GCD(_, _)
GCD(a, b) == IF b = 0 THEN a ELSE GCD(b, a % b)

Abs(x) == IF x < 0 THEN -x ELSE x

\* n/d in lowest terms with a positive denominator (d # 0)
Rat(n, d) ==
    LET g == GCD(Abs(n), Abs(d))
        s == IF d < 0 THEN -1 ELSE 1
    IN  [n |-> s * (n \div g), d |-> s * (d \div g)]

RInt(i) == [n |-> i, d |-> 1]
RZero == RInt(0)
ROne == RInt(1)

RAdd(x, y) ==
    LET g == GCD(x.d, y.d)
    IN  Rat(x.n * (y.d \div g) + y.n * (x.d \div g), (x.d \div g) * y.d)

RNeg(x) == [n |-> -x.n, d |-> x.d]
RSub(x, y) == RAdd(x, RNeg(y))

RMul(x, y) ==
    LET a == Rat(x.n, y.d)
        b == Rat(y.n, x.d)
    IN  [n |-> a.n * b.n, d |-> a.d * b.d]

\* y # 0
RDiv(x, y) == RMul(x, Rat(y.d, y.n))

RLess(x, y) == RSub(x, y).n < 0
RLeq(x, y) == RSub(x, y).n <= 0
RIsZero(x) == x.n = 0
RMax(x, y) == IF RLess(x, y) THEN y ELSE x

RECURSIVE RPow(_, _)
RPow(x, k) == IF k = 0 THEN ROne ELSE RMul(x, RPow(x, k - 1))

RECURSIVE RSum(_)
RSum(s) == IF s = <<>> THEN RZero ELSE RAdd(Head(s), RSum(Tail(s)))

-----------------------------------------------------------------------------
(* FinancialProjections.calculate_loan_repayment_schedule *)

NoRaise == "none"

\* the for loop of the schedule: rows month..repayment_period, remaining
\* carrying the unclamped balance from one iteration to the next
RECURSIVE ScheduleRows(_, _, _, _, _)
ScheduleRows(month, n, remaining_balance, monthly_rate, monthly_payment) ==
    IF month > n THEN <<>>
    ELSE LET interest_payment == RMul(remaining_balance, monthly_rate)
             principal_payment == RSub(monthly_payment, interest_payment)
             remaining == RSub(remaining_balance, principal_payment)
         IN  <<[month |-> month,
                payment |-> monthly_payment,
                principal |-> principal_payment,
                interest |-> interest_payment,
                remaining_balance |-> RMax(RZero, remaining)]>>
             \o ScheduleRows(month + 1, n, remaining, monthly_rate, monthly_payment)

calculate_loan_repayment_schedule(loan, rate, n) ==
    LET monthly_rate == Rat(rate, 1200)
        growth == RPow(RAdd(ROne, monthly_rate), n)
        divisor == RSub(growth, ROne)
    IN  IF RIsZero(divisor)
        THEN [raised |-> "ZeroDivisionError", rows |-> <<>>]
        ELSE LET monthly_payment ==
                     RDiv(RMul(RMul(RInt(loan), monthly_rate), growth), divisor)
             IN  [raised |-> NoRaise,
                  rows |-> ScheduleRows(1, n, RInt(loan), monthly_rate, monthly_payment)]

-----------------------------------------------------------------------------
(* FinancialProjections.project_income_statement *)

\* dict.get(key, default)
Get(dict, key, default) == IF key \in DOMAIN dict THEN dict[key] ELSE default

IncomeRow(hist, assume, loan, rate, year) ==
    LET current_revenue == Get(hist, "revenue", RZero)
        current_interest_expense == Get(hist, "interest_expense", RZero)
        additional_annual_interest ==
            IF loan > 0 /\ rate > 0
            THEN RMul(RDiv(RMul(RInt(loan), Rat(rate, 100)), RInt(12)), RInt(12))
            ELSE RZero
        revenue == RMul(current_revenue,
                        RPow(RAdd(ROne, Get(assume, "revenue_growth", Rat(5, 100))), year))
        cogs == RMul(revenue, Get(assume, "cogs_percentage", Rat(6, 10)))
        gross_profit == RSub(revenue, cogs)
        opex == RMul(revenue, Get(assume, "opex_percentage", Rat(25, 100)))
        ebitda == RSub(gross_profit, opex)
        interest_expense == RAdd(current_interest_expense, additional_annual_interest)
        ebit == RSub(ebitda, interest_expense)
        tax == RMul(ebit, Get(assume, "tax_rate", Rat(3, 10)))
    IN  [year |-> year, revenue |-> revenue, cogs |-> cogs,
         gross_profit |-> gross_profit, operating_expenses |-> opex,
         ebitda |-> ebitda, interest_expense |-> interest_expense,
         ebit |-> ebit, tax |-> tax, net_income |-> RSub(ebit, tax),
         loan_impact |-> additional_annual_interest]

project_income_statement(hist, assume, n, loan, rate) ==
    [year \in 1..n |-> IncomeRow(hist, assume, loan, rate, year)]

-----------------------------------------------------------------------------
(* FinancialProjections._get_annual_loan_payment and                       *)
(* calculate_debt_service_coverage_ratio                                   *)

RECURSIVE SumPayments(_, _, _)
SumPayments(rows, start_month, end_month) ==
    IF rows = <<>> THEN RZero
    ELSE LET r == Head(rows)
             rest == SumPayments(Tail(rows), start_month, end_month)
         IN  IF r.month >= start_month /\ r.month <= end_month
             THEN RAdd(r.payment, rest) ELSE rest

\* every payment of the schedule counted in every year
TotalLoanPayment(schedule, year) ==
    IF schedule.rows = <<>> THEN RZero
    ELSE SumPayments(schedule.rows, 1, Len(schedule.rows))

_get_annual_loan_payment(schedule, year) ==
    IF schedule.rows = <<>> THEN RZero
    ELSE SumPayments(schedule.rows, (year - 1) * 12 + 1, year * 12)

\* the comparison taken strict, so that a dscr of exactly 1.25 is Inadequate
DscrAdequateStrict(dscr) == dscr.inf \/ RLess(Rat(125, 100), dscr.v)

\* dscr >= 1.25, where an infinite dscr compares greater than every number
DscrAdequate(dscr) == dscr.inf \/ RLeq(Rat(125, 100), dscr.v)

DscrRow(income_row, schedule) ==
    LET annual_loan_payment == _get_annual_loan_payment(schedule, income_row.year)
        total_debt_service == RAdd(income_row.interest_expense, annual_loan_payment)
        dscr == IF RLess(RZero, total_debt_service)
                THEN [inf |-> FALSE, v |-> RDiv(income_row.ebitda, total_debt_service)]
                ELSE [inf |-> TRUE, v |-> RZero]
    IN  [year |-> income_row.year,
         ebitda |-> income_row.ebitda,
         total_debt_service |-> total_debt_service,
         dscr |-> dscr,
         status |-> IF DscrAdequate(dscr) THEN "Adequate" ELSE "Inadequate"]

calculate_debt_service_coverage_ratio(income, schedule) ==
    [i \in DOMAIN income |-> DscrRow(income[i], schedule)]

-----------------------------------------------------------------------------
(* FinancialProjections.project_balance_sheet and project_cash_flow *)

\* the balance written off in a straight line with no end of term
RemainingBalanceWithoutTerm(loan, year, months) ==
    LET annual_repayment == RDiv(RInt(loan), Rat(months, 12))
    IN  RMax(RZero, RSub(RInt(loan), RMul(annual_repayment, RInt(year - 1))))

_calculate_remaining_loan_balance(loan, year, months) ==
    IF 12 * year > months THEN RZero
    ELSE LET annual_repayment == RDiv(RInt(loan), Rat(months, 12))
         IN  RMax(RZero, RSub(RInt(loan), RMul(annual_repayment, RInt(year - 1))))

BalanceRow(hist, assume, income_row, loan) ==
    LET year == income_row.year
        assets == RMul(Get(hist, "total_assets", RZero),
                       RPow(RAdd(ROne, Get(assume, "asset_growth", Rat(5, 100))), year))
        existing_liabilities ==
            RMul(Get(hist, "total_liabilities", RZero),
                 RPow(RAdd(ROne, Get(assume, "debt_growth", Rat(3, 100))), year))
        remaining_loan_balance ==
            IF loan > 0
            THEN _calculate_remaining_loan_balance(loan, year,
                                                   Get(assume, "repayment_period", 60))
            ELSE RZero
        total_liabilities == RAdd(existing_liabilities, remaining_loan_balance)
    IN  [year |-> year,
         total_assets |-> assets,
         total_liabilities |-> total_liabilities,
         equity |-> RAdd(Get(hist, "equity", RZero), RMul(income_row.net_income, RInt(year))),
         current_assets |-> RMul(assets, Rat(6, 10)),
         current_liabilities |-> RMul(total_liabilities, Rat(4, 10)),
         loan_balance |-> remaining_loan_balance,
         existing_debt |-> existing_liabilities]

project_balance_sheet(hist, assume, income, loan) ==
    [i \in DOMAIN income |-> BalanceRow(hist, assume, income[i], loan)]

CashFlowRow(assume, income_row, balance_row, loan, schedule, financing) ==
    LET operating_cashflow == RAdd(income_row.net_income, income_row.interest_expense)
        investing_cashflow ==
            RNeg(RMul(balance_row.total_assets, Get(assume, "capex_percentage", Rat(1, 10))))
    IN  [year |-> income_row.year,
         operating_cashflow |-> operating_cashflow,
         investing_cashflow |-> investing_cashflow,
         financing_cashflow |-> financing,
         net_cashflow |-> RAdd(RAdd(operating_cashflow, investing_cashflow), financing),
         loan_impact |-> financing]

\* the loan received in year 1 net of that year's payments
CashFlowRepaidFromFirstYear(assume, income, balance, loan, schedule) ==
    [i \in DOMAIN income |->
        CashFlowRow(assume, income[i], balance[i], loan, schedule,
                    IF loan > 0
                    THEN IF income[i].year = 1
                         THEN RSub(RInt(loan), _get_annual_loan_payment(schedule, 1))
                         ELSE RNeg(_get_annual_loan_payment(schedule, income[i].year))
                    ELSE RZero)]

\* repayment_schedule is the table the caller has computed, never None
project_cash_flow(assume, income, balance, loan, schedule) ==
    [i \in DOMAIN income |->
        CashFlowRow(assume, income[i], balance[i], loan, schedule,
                    IF loan > 0
                    THEN IF income[i].year = 1
                         THEN RInt(loan)
                         ELSE RNeg(_get_annual_loan_payment(schedule, income[i].year))
                    ELSE RZero)]

-----------------------------------------------------------------------------
(* The projection run: inputs, then the engine calls in the caller's order *)

InterestRates == {0, 120, 600}
Revenues == {RInt(0), RInt(100)}
InterestExpenses == {RInt(0), RInt(4)}
OpexPercentages == {Rat(25, 100), Rat(35, 100)}

NoSchedule == [raised |-> NoRaise, rows |-> <<>>]

NoReport == [loan_amount |-> 0, core_capital |-> 0]

\* the historical data the page derives from the base revenue
HistoricalData(base_revenue, interest_expense) ==
    [revenue |-> base_revenue,
     interest_expense |-> interest_expense,
     total_assets |-> RMul(base_revenue, Rat(8, 10)),
     total_liabilities |-> RMul(base_revenue, Rat(5, 10)),
     equity |-> RMul(base_revenue, Rat(3, 10))]

\* the months over which project_balance_sheet writes the loan off: the
\* assumptions hold no repayment_period (0 here) or one of these
WriteOffMonths == {0, 12, 18, 24}

Assumptions(opex_percentage, months) ==
    LET entered == [revenue_growth |-> RZero, cogs_percentage |-> Rat(6, 10),
                    opex_percentage |-> opex_percentage]
    IN  IF months = 0 THEN entered ELSE ("repayment_period" :> months) @@ entered

\* a loan repaid into its second year; at 100% a month the amounts stay
\* within 32 bits
LongLoan == [interest_rate |-> 1200, repayment_period |-> 13]

LoanTerms ==
    {[interest_rate |-> r, repayment_period |-> n] : r \in InterestRates, n \in 1..MaxTerm}
    \cup {LongLoan}

InitProj ==
    /\ historical_data \in
         {HistoricalData(r, i) : r \in Revenues, i \in InterestExpenses}
    /\ assumptions \in
         {Assumptions(o, months) : o \in OpexPercentages, months \in WriteOffMonths}
    /\ loan_amount \in 0..MaxPrincipal
    /\ \E terms \in LoanTerms :
          /\ interest_rate = terms.interest_rate
          /\ repayment_period = terms.repayment_period
    /\ periods \in 1..MaxPeriods
    /\ repayment_schedule = NoSchedule
    /\ income_projections = <<>>
    /\ balance_projections = <<>>
    /\ cashflow_projections = <<>>
    /\ dscr_analysis = <<>>
    /\ session_state = <<>>
    /\ runs = 1
    /\ report_input = NoReport
    /\ proj_pc = "start"

IdleProj ==
    /\ historical_data = HistoricalData(RZero, RZero)
    /\ assumptions = [revenue_growth |-> RZero]
    /\ loan_amount = 0
    /\ interest_rate = 0
    /\ repayment_period = 1
    /\ periods = 1
    /\ repayment_schedule = NoSchedule
    /\ income_projections = <<>>
    /\ balance_projections = <<>>
    /\ cashflow_projections = <<>>
    /\ dscr_analysis = <<>>
    /\ session_state = <<>>
    /\ runs = 0
    /\ report_input = NoReport
    /\ proj_pc = "idle"

\* st.session_state.key = value
Store(state, key, value) == (key :> value) @@ state

\* repayment_schedule = projections.calculate_loan_repayment_schedule(...)
\* and st.session_state.repayment_schedule = repayment_schedule; an
\* exception ends the run before anything is stored
CalculateSchedule ==
    /\ proj_pc = "start"
    /\ repayment_schedule' =
         calculate_loan_repayment_schedule(loan_amount, interest_rate, repayment_period)
    /\ session_state' = IF repayment_schedule'.raised = NoRaise
                        THEN Store(session_state, "repayment_schedule", repayment_schedule')
                        ELSE session_state
    /\ proj_pc' = IF repayment_schedule'.raised = NoRaise THEN "schedule" ELSE "raised"
    /\ UNCHANGED <<historical_data, assumptions, loan_amount, interest_rate,
                   repayment_period, periods, income_projections, balance_projections,
                   cashflow_projections, dscr_analysis, runs, report_input>>
    /\ UNCHANGED NotProj

ProjectIncome ==
    /\ proj_pc = "schedule"
    /\ income_projections' =
         project_income_statement(historical_data, assumptions, periods,
                                  loan_amount, interest_rate)
    /\ proj_pc' = "income"
    /\ UNCHANGED <<historical_data, assumptions, loan_amount, interest_rate,
                   repayment_period, periods, repayment_schedule, balance_projections,
                   cashflow_projections, dscr_analysis, session_state, runs, report_input>>
    /\ UNCHANGED NotProj

ProjectBalanceSheet ==
    /\ proj_pc = "income"
    /\ balance_projections' =
         project_balance_sheet(historical_data, assumptions, income_projections,
                               loan_amount)
    /\ proj_pc' = "balance"
    /\ UNCHANGED <<historical_data, assumptions, loan_amount, interest_rate,
                   repayment_period, periods, repayment_schedule, income_projections,
                   cashflow_projections, dscr_analysis, session_state, runs, report_input>>
    /\ UNCHANGED NotProj

ProjectCashFlow ==
    /\ proj_pc = "balance"
    /\ cashflow_projections' =
         project_cash_flow(assumptions, income_projections, balance_projections,
                           loan_amount, repayment_schedule)
    /\ proj_pc' = "cashflow"
    /\ UNCHANGED <<historical_data, assumptions, loan_amount, interest_rate,
                   repayment_period, periods, repayment_schedule, income_projections,
                   balance_projections, dscr_analysis, session_state, runs, report_input>>
    /\ UNCHANGED NotProj

\* the DSCR series computed from the income projections found in the
\* session, those of the run before
CalculateDSCRFromStoredIncome ==
    /\ proj_pc = "cashflow"
    /\ dscr_analysis' =
         calculate_debt_service_coverage_ratio(
             IF "income_projections" \in DOMAIN session_state
             THEN session_state["income_projections"] ELSE income_projections,
             repayment_schedule)
    /\ proj_pc' = "dscr"
    /\ UNCHANGED <<historical_data, assumptions, loan_amount, interest_rate,
                   repayment_period, periods, repayment_schedule, income_projections,
                   balance_projections, cashflow_projections, session_state, runs,
                   report_input>>
    /\ UNCHANGED NotProj

CalculateDSCR ==
    /\ proj_pc = "cashflow"
    /\ dscr_analysis' =
         calculate_debt_service_coverage_ratio(income_projections, repayment_schedule)
    /\ proj_pc' = "dscr"
    /\ UNCHANGED <<historical_data, assumptions, loan_amount, interest_rate,
                   repayment_period, periods, repayment_schedule, income_projections,
                   balance_projections, cashflow_projections, session_state, runs, report_input>>
    /\ UNCHANGED NotProj

\* the four assignments to st.session_state that end the run
StoreProjections ==
    /\ proj_pc = "dscr"
    /\ session_state' =
         Store(Store(Store(Store(session_state,
                                 "income_projections", income_projections),
                           "balance_projections", balance_projections),
                     "cashflow_projections", cashflow_projections),
               "dscr_analysis", dscr_analysis)
    /\ proj_pc' = "done"
    /\ UNCHANGED <<historical_data, assumptions, loan_amount, interest_rate,
                   repayment_period, periods, repayment_schedule, income_projections,
                   balance_projections, cashflow_projections, dscr_analysis, runs, report_input>>
    /\ UNCHANGED NotProj

NextProj ==
    \/ CalculateSchedule
    \/ ProjectIncome
    \/ ProjectBalanceSheet
    \/ ProjectCashFlow
    \/ CalculateDSCR
    \/ StoreProjections

-----------------------------------------------------------------------------
(* Strings: str.lower, str.strip and the substring test  a in b *)

UpperCaseLetters == "ABCDEFGHIJKLMNOPQRSTUVWXYZ"
LowerCaseLetters == "abcdefghijklmnopqrstuvwxyz"
Whitespace == {" ", "\t"}

CharAt(s, i) == SubSeq(s, i, i)

LowerChar(c) ==
    IF \E i \in 1..26 : CharAt(UpperCaseLetters, i) = c
    THEN CharAt(LowerCaseLetters, CHOOSE i \in 1..26 : CharAt(UpperCaseLetters, i) = c)
    ELSE c

RECURSIVE Lower(_)
Lower(s) == IF s = "" THEN "" ELSE LowerChar(CharAt(s, 1)) \o Lower(SubSeq(s, 2, Len(s)))

RECURSIVE LStrip(_)
LStrip(s) ==
    IF s # "" /\ CharAt(s, 1) \in Whitespace THEN LStrip(SubSeq(s, 2, Len(s))) ELSE s

RECURSIVE RStrip(_)
RStrip(s) ==
    IF s # "" /\ CharAt(s, Len(s)) \in Whitespace
    THEN RStrip(SubSeq(s, 1, Len(s) - 1)) ELSE s

Strip(s) == RStrip(LStrip(s))

\* sub in s
Contains(sub, s) ==
    \E i \in 1..(Len(s) - Len(sub) + 1) : SubSeq(s, i, i + Len(sub) - 1) = sub

-----------------------------------------------------------------------------
(* Tables (pandas DataFrame): column labels and rows of cells.  A cell is  *)
(* missing (NaN), a number, or text.                                       *)

NaN == [kind |-> "nan", num |-> 0, text |-> ""]
Num(i) == [kind |-> "num", num |-> i, text |-> ""]
Text(s) == [kind |-> "str", num |-> 0, text |-> s]

None == [is_none |-> TRUE, columns |-> <<>>, rows |-> <<>>]
Table(columns, rows) == [is_none |-> FALSE, columns |-> columns, rows |-> rows]

\* DataFrame.empty: an axis of length 0
IsEmpty(t) == t.columns = <<>> \/ t.rows = <<>>

RECURSIVE SelectSeq2(_, _)
\* the elements of s whose index is in keep, in order
SelectSeq2(s, keep) ==
    IF s = <<>> THEN <<>>
    ELSE LET n == Len(s)
             init == SelectSeq2(SubSeq(s, 1, n - 1), keep)
         IN  IF n \in keep THEN Append(init, s[n]) ELSE init

-----------------------------------------------------------------------------
(* DataProcessor.column_mappings and DataProcessor._map_column_names *)

column_mappings == <<
    [standard_name |-> "revenue",
     possible_names |-> <<"revenue", "sales", "turnover", "gross revenue",
                          "total revenue", "income">>],
    [standard_name |-> "net_income",
     possible_names |-> <<"net income", "net profit", "profit after tax", "pat",
                          "net profit after tax">>],
    [standard_name |-> "total_assets",
     possible_names |-> <<"total assets", "assets", "non-current assets",
                          "current assets", "fixed assets">>],
    [standard_name |-> "total_liabilities",
     possible_names |-> <<"total liabilities", "liabilities",
                          "non-current liabilities", "current liabilities">>],
    [standard_name |-> "current_assets",
     possible_names |-> <<"current assets", "inventories", "receivables",
                          "cash and cash equivalents">>],
    [standard_name |-> "current_liabilities",
     possible_names |-> <<"current liabilities", "payables", "short term debt">>],
    [standard_name |-> "equity",
     possible_names |-> <<"equity", "shareholders equity", "share capital",
                          "retained earnings">>],
    [standard_name |-> "gross_profit",
     possible_names |-> <<"gross profit", "gross margin">>],
    [standard_name |-> "operating_expenses",
     possible_names |-> <<"operating expenses", "administrative expenses",
                          "selling expenses">>],
    [standard_name |-> "ebit",
     possible_names |-> <<"ebit", "operating profit", "profit before interest and tax">>],
    [standard_name |-> "cogs",
     possible_names |-> <<"cost of goods sold", "cogs", "cost of sales">>],
    [standard_name |-> "cash_flow_operating",
     possible_names |-> <<"operating cash flow", "cash from operations",
                          "net cash from operating activities">>],
    [standard_name |-> "cash_flow_investing",
     possible_names |-> <<"investing cash flow", "cash from investing activities">>],
    [standard_name |-> "cash_flow_financing",
     possible_names |-> <<"financing cash flow", "cash from financing activities">>] >>

StandardNames == {column_mappings[k].standard_name : k \in DOMAIN column_mappings}

\* line 96: possible_name in col_lower or col_lower in possible_name, for
\* some possible_name of the k-th standard name
NameMatches(k, col_name) ==
    LET col_lower == Strip(Lower(col_name))
        possible_names == column_mappings[k].possible_names
    IN  \E j \in DOMAIN possible_names :
            Contains(possible_names[j], col_lower) \/ Contains(col_lower, possible_names[j])

\* The labels of the model's tables, and for each the standard names it
\* matches (the test above, evaluated once per label).
LabelPool == <<"Total Revenue", "Net Profit After Tax", "Total Assets",
               "Total Liabilities", "COGS", "Equity", "Free Cash Flow",
               "Inventory", "Notes", "assets", " ASSETS ">>

\* the columns of a cash-flow statement
CashFlowLabels == <<"Operating Cash Flow", "Investing Cash Flow", "Financing Cash Flow">>

LabelSet ==
    {LabelPool[i] : i \in DOMAIN LabelPool} \cup {CashFlowLabels[i] : i \in DOMAIN CashFlowLabels}

MatchTable == [l \in LabelSet |-> {k \in DOMAIN column_mappings : NameMatches(k, l)}]

Matches(k, col_name) == k \in MatchTable[col_name]

\* the loop of lines 91-98 after the first k standard names: column_mapping,
\* a dict from source label to standard name, later assignments overwriting
\* earlier ones
RECURSIVE ColumnMapping(_, _)
ColumnMapping(k, columns) ==
    IF k = 0 THEN <<>>
    ELSE LET before == ColumnMapping(k - 1, columns)
             hit == {columns[c] : c \in {c \in DOMAIN columns : Matches(k, columns[c])}}
         IN  [l \in (DOMAIN before) \cup hit |->
                IF l \in hit THEN column_mappings[k].standard_name ELSE before[l]]

\* df.rename(columns=column_mapping): the renamed column labels
RenamedColumns(columns, column_mapping) ==
    [c \in DOMAIN columns |->
        IF columns[c] \in DOMAIN column_mapping
        THEN column_mapping[columns[c]] ELSE columns[c]]

_map_column_names(t) ==
    Table(RenamedColumns(t.columns, ColumnMapping(Len(column_mappings), t.columns)),
          t.rows)

-----------------------------------------------------------------------------
(* DataProcessor.clean_financial_data *)

numeric_columns == <<"revenue", "net_income", "total_assets", "total_liabilities",
                     "current_assets", "current_liabilities", "equity", "gross_profit",
                     "operating_expenses", "ebit", "cogs", "cash_flow_operating",
                     "cash_flow_investing", "cash_flow_financing">>

CurrencyChars == {"₦", "$", "£", "€", ","}
DigitChars == "0123456789"

IsDigit(c) == \E i \in 1..10 : CharAt(DigitChars, i) = c
DigitValue(c) == (CHOOSE i \in 1..10 : CharAt(DigitChars, i) = c) - 1

RECURSIVE NatToStr(_)
NatToStr(i) ==
    IF i < 10 THEN CharAt(DigitChars, i + 1)
    ELSE NatToStr(i \div 10) \o CharAt(DigitChars, (i % 10) + 1)

\* str(x) of a numeric cell: an int64 column prints 7, a float64 column
\* (one that holds a NaN) prints 7.0
NumToStr(i, is_float) ==
    (IF i < 0 THEN "-" ELSE "") \o NatToStr(Abs(i)) \o (IF is_float THEN ".0" ELSE "")

\* Series.astype(str)
AsStr(cell, is_float) ==
    CASE cell.kind = "nan" -> "nan"
      [] cell.kind = "num" -> NumToStr(cell.num, is_float)
      [] OTHER -> cell.text

\* Series.str.replace('[₦$£€,]', '', regex=True)
RECURSIVE StripCurrency(_)
StripCurrency(s) ==
    IF s = "" THEN ""
    ELSE (IF CharAt(s, 1) \in CurrencyChars THEN "" ELSE CharAt(s, 1))
         \o StripCurrency(SubSeq(s, 2, Len(s)))

AllDigits(s) == \A i \in 1..Len(s) : IsDigit(CharAt(s, i))
AllZeros(s) == \A i \in 1..Len(s) : CharAt(s, i) = "0"

RECURSIVE DigitsValue(_)
DigitsValue(s) ==
    IF s = "" THEN 0
    ELSE 10 * DigitsValue(SubSeq(s, 1, Len(s) - 1)) + DigitValue(CharAt(s, Len(s)))

\* pd.to_numeric(errors='coerce') followed by fillna(0): a decimal numeral
\* (an optional sign, digits, an optional fraction of zeros, as astype(str)
\* prints the model's integers) gives its value, an unparseable text gives 0.
\* Numerals with a fraction other than zeros are not cells of the model.
ToNumericOrZero(s) ==
    LET t == Strip(s)
        negative == t # "" /\ CharAt(t, 1) = "-"
        unsigned == IF negative THEN SubSeq(t, 2, Len(t)) ELSE t
        dots == {i \in 1..Len(unsigned) : CharAt(unsigned, i) = "."}
        whole == IF dots = {} THEN unsigned
                 ELSE SubSeq(unsigned, 1, (CHOOSE i \in dots : \A j \in dots : i <= j) - 1)
        fraction == IF dots = {} THEN ""
                    ELSE SubSeq(unsigned, (CHOOSE i \in dots : \A j \in dots : i <= j) + 1,
                                Len(unsigned))
    IN  IF whole # "" /\ AllDigits(whole) /\ AllZeros(fraction)
        THEN (IF negative THEN -1 ELSE 1) * DigitsValue(whole)
        ELSE 0

\* lines 136-139 on one cell
CoerceCell(cell, is_float) == Num(ToNumericOrZero(StripCurrency(AsStr(cell, is_float))))

Column(t, c) == [r \in DOMAIN t.rows |-> t.rows[r][c]]

\* the column's dtype is numeric (int64 or float64): no text cell
IsNumericColumn(t, c) == \A r \in DOMAIN t.rows : t.rows[r][c].kind # "str"
IsFloatColumn(t, c) == \E r \in DOMAIN t.rows : t.rows[r][c].kind = "nan"

\* dropna(how='all'): the rows with a cell that is not missing
DropEmptyRows(t) ==
    Table(t.columns,
          SelectSeq2(t.rows, {r \in DOMAIN t.rows :
                                \E c \in DOMAIN t.columns : t.rows[r][c].kind # "nan"}))

\* dropna(axis=1, how='all'): the columns with a cell that is not missing
DropEmptyColumns(t) ==
    LET keep == {c \in DOMAIN t.columns :
                    \E r \in DOMAIN t.rows : t.rows[r][c].kind # "nan"}
    IN  Table(SelectSeq2(t.columns, keep),
              [r \in DOMAIN t.rows |-> SelectSeq2(t.rows[r], keep)])

\* lines 132-141: a standard column is converted, unless two columns bear
\* that name (df_clean[col] is then a DataFrame, .str raises, the except
\* clause logs a warning and the columns stay as they are)
Converted(t, c) ==
    /\ \E k \in DOMAIN numeric_columns : numeric_columns[k] = t.columns[c]
    /\ Cardinality({c2 \in DOMAIN t.columns : t.columns[c2] = t.columns[c]}) = 1

ConvertNumericColumns(t) ==
    Table(t.columns,
          [r \in DOMAIN t.rows |->
             [c \in DOMAIN t.columns |->
                IF Converted(t, c)
                THEN CoerceCell(t.rows[r][c], IsNumericColumn(t, c) /\ IsFloatColumn(t, c))
                ELSE t.rows[r][c]]])

\* lines 144-146: rows whose numeric cells are all 0 are removed (NaN != 0)
DropZeroRows(t) ==
    LET numeric == {c \in DOMAIN t.columns : IsNumericColumn(t, c)}
    IN  IF numeric = {} \/ t.rows = <<>> THEN t
        ELSE Table(t.columns,
                   SelectSeq2(t.rows,
                              {r \in DOMAIN t.rows :
                                 \E c \in numeric :
                                    t.rows[r][c].kind = "nan" \/ t.rows[r][c].num # 0}))

clean_financial_data(t) ==
    IF t.is_none \/ IsEmpty(t)
    THEN [raised |-> "ValueError", table |-> None]
    ELSE [raised |-> NoRaise,
          table |-> DropZeroRows(ConvertNumericColumns(_map_column_names(
                        DropEmptyColumns(DropEmptyRows(t)))))]

-----------------------------------------------------------------------------
(* DataProcessor.detect_financial_statement_type *)

income_indicators == <<"revenue", "sales", "cogs", "gross profit", "operating income",
                       "net income", "ebit", "ebitda">>
balance_indicators == <<"assets", "liabilities", "equity", "current assets",
                        "fixed assets", "inventory">>
cashflow_indicators == <<"operating cash flow", "investing cash flow",
                         "financing cash flow", "cash flow">>

\* The keywords the classifier looks for, and for every label a table can
\* bear the keywords its lower-cased form contains (evaluated once per label).
Keywords ==
    {income_indicators[i] : i \in DOMAIN income_indicators}
    \cup {balance_indicators[i] : i \in DOMAIN balance_indicators}
    \cup {cashflow_indicators[i] : i \in DOMAIN cashflow_indicators}

\* the keywords sought in the labels with their underscores read as blanks
KeywordTableSpaced ==
    LET Spaced(s) == [i \in 1..Len(s) |-> IF CharAt(s, i) = "_" THEN " " ELSE CharAt(s, i)]
        Joined(s) == LET RECURSIVE J(_)
                         J(k) == IF k = 0 THEN "" ELSE J(k - 1) \o Spaced(s)[k]
                     IN  J(Len(s))
    IN  [l \in LabelSet \cup StandardNames |->
            {w \in Keywords : Contains(w, Joined(Lower(l)))}]

KeywordTable == [l \in LabelSet \cup StandardNames |->
                    {w \in Keywords : Contains(w, Lower(l))}]

\* the keyword sought in the first column only
InFirstColumn(word, columns) == columns # <<>> /\ word \in KeywordTable[columns[1]]

\* any(word in col for col in column_names)
InSomeColumn(word, columns) == \E c \in DOMAIN columns : word \in KeywordTable[columns[c]]

\* the keyword compared with the whole label instead of sought inside it
ScoreWholeLabel(indicators, columns) ==
    Cardinality({i \in DOMAIN indicators :
                    \E c \in DOMAIN columns : Lower(columns[c]) = indicators[i]})

\* sum(1 for indicator in indicators if any(indicator in col for col in column_names))
Score(indicators, columns) ==
    Cardinality({i \in DOMAIN indicators : InSomeColumn(indicators[i], columns)})

\* the second rule asking for "assets" or "liabilities" instead of both
TieBreakEither(columns) ==
    IF InSomeColumn("cash flow", columns) THEN "cash_flow"
    ELSE IF InSomeColumn("assets", columns) \/ InSomeColumn("liabilities", columns)
         THEN "balance_sheet"
         ELSE "income_statement"

TieBreak(columns) ==
    IF InSomeColumn("cash flow", columns) THEN "cash_flow"
    ELSE IF InSomeColumn("assets", columns) /\ InSomeColumn("liabilities", columns)
         THEN "balance_sheet"
         ELSE "income_statement"

Max3(a, b, c) == IF a >= b /\ a >= c THEN a ELSE IF b >= c THEN b ELSE c

detect_financial_statement_type(t) ==
    IF t.is_none THEN "unknown"
    ELSE LET income_score == Score(income_indicators, t.columns)
             balance_score == Score(balance_indicators, t.columns)
             cashflow_score == Score(cashflow_indicators, t.columns)
             scores == <<[type |-> "income_statement", score |-> income_score],
                         [type |-> "balance_sheet", score |-> balance_score],
                         [type |-> "cash_flow", score |-> cashflow_score]>>
             max_score == Max3(income_score, balance_score, cashflow_score)
             best_types == SelectSeq(scores, LAMBDA e : e.score = max_score)
         IN  IF max_score > 0
             THEN IF Len(best_types) = 1 THEN best_types[1].type
                  ELSE TieBreak(t.columns)
             ELSE "unknown"

-----------------------------------------------------------------------------
(* One uploaded file's pipeline: the table read from the file is cleaned   *)
(* and then classified (pages/2_Historical_Data.py, main).                 *)

RowKinds == {"blank", "zeros", "figures", "formatted", "sparse"}

\* the cell of a row of the given kind in column c
CellOfKind(kind, c) ==
    CASE kind = "blank" -> NaN
      [] kind = "zeros" -> Num(0)
      [] kind = "figures" -> Num(10 * c)
      [] kind = "formatted" -> Text("$1,000")
      [] OTHER -> IF c = 1 THEN Num(5) ELSE IF c = 2 THEN Text("n/a") ELSE NaN

Reverse(s) == [i \in DOMAIN s |-> s[Len(s) + 1 - i]]

ColumnChoices ==
    LET picks == {S \in SUBSET (DOMAIN LabelPool) : Cardinality(S) <= MaxCols}
    IN  {SelectSeq2(LabelPool, S) : S \in picks}
        \cup {Reverse(SelectSeq2(LabelPool, S)) : S \in picks}
        \cup {CashFlowLabels}

RowChoices(ncols) ==
    UNION {{[r \in 1..n |-> [c \in 1..ncols |-> CellOfKind(kinds[r], c)]]
              : kinds \in [1..n -> RowKinds]} : n \in 0..MaxRows}

NoResult == [raised |-> NoRaise, table |-> None]

InitData ==
    /\ \/ df = None
       \/ \E columns \in ColumnChoices :
             \E rows \in RowChoices(Len(columns)) : df = Table(columns, rows)
    /\ cleaned_data = NoResult
    /\ statement_type = "none"
    /\ data_pc = "uploaded"

IdleData ==
    /\ df = None
    /\ cleaned_data = NoResult
    /\ statement_type = "none"
    /\ data_pc = "idle"

\* cleaned_data = processor.clean_financial_data(df); an exception ends the
\* file's pipeline
CleanFinancialData ==
    /\ data_pc = "uploaded"
    /\ cleaned_data' = clean_financial_data(df)
    /\ data_pc' = IF cleaned_data'.raised = NoRaise THEN "cleaned" ELSE "raised"
    /\ UNCHANGED <<df, statement_type>>
    /\ UNCHANGED NotData

\* statement_type = processor.detect_financial_statement_type(cleaned_data)
DetectStatementType ==
    /\ data_pc = "cleaned"
    /\ statement_type' = detect_financial_statement_type(cleaned_data.table)
    /\ data_pc' = "classified"
    /\ UNCHANGED <<df, cleaned_data>>
    /\ UNCHANGED NotData

NextData == CleanFinancialData \/ DetectStatementType

-----------------------------------------------------------------------------
(* RiskModels.altman_z_score *)

\* lines 17-25: the score once total_assets is known not to be 0; a division
\* by zero raises
AltmanFormula(a) ==
    IF a.total_assets = 0
    THEN [raised |-> "ZeroDivisionError", value |-> RZero]
    ELSE LET X1 == Rat(a.working_capital, a.total_assets)
             X2 == Rat(a.retained_earnings, a.total_assets)
             X3 == Rat(a.ebit, a.total_assets)
             X4 == IF a.total_liabilities > 0
                   THEN Rat(a.market_value_equity, a.total_liabilities)
                   ELSE RZero
             X5 == RInt(a.total_assets)
         IN  [raised |-> NoRaise,
              value |-> RSum(<<RMul(Rat(12, 10), X1), RMul(Rat(14, 10), X2),
                               RMul(Rat(33, 10), X3), RMul(Rat(6, 10), X4),
                               RMul(ROne, X5)>>)]

\* the function without its first two lines
AltmanUnguarded(a) == AltmanFormula(a)

altman_z_score(a) ==
    IF a.total_assets = 0
    THEN [raised |-> NoRaise, value |-> RZero]
    ELSE AltmanFormula(a)

NoScore == [computed |-> FALSE, result |-> [raised |-> NoRaise, value |-> RZero]]

AltmanInputs ==
    [working_capital : {-2, 3}, retained_earnings : {0, 4}, ebit : {-1, 5},
     market_value_equity : {0, 6}, total_assets : (-1)..MaxAssets,
     total_liabilities : {-1, 0, 2}]

NoCreditScore == [computed |-> FALSE, score |-> 0]

\* no call of machine_learning_credit_scoring
IdleCredit ==
    /\ financial_ratios = <<>>
    /\ ml_score = NoCreditScore

NoMertonInput ==
    [company_value |-> 1, debt_face_value |-> 1, risk_free_rate |-> RZero,
     volatility |-> ROne, time_to_maturity |-> 1]

NoMertonOutput == [computed |-> FALSE, probability_default |-> <<>>,
                   distance_to_default |-> <<>>]

\* no call of merton_structural_model
IdleMerton ==
    /\ merton_input = NoMertonInput
    /\ merton_output = NoMertonOutput

\* no call of altman_z_score
IdleZScore ==
    /\ altman_input = [working_capital |-> 0, retained_earnings |-> 0, ebit |-> 0,
                       market_value_equity |-> 0, total_assets |-> 0,
                       total_liabilities |-> 0]
    /\ z_score = NoScore

InitAltman ==
    /\ altman_input \in AltmanInputs
    /\ z_score = NoScore
    /\ IdleCredit
    /\ IdleMerton

IdleAltman == IdleZScore /\ IdleCredit /\ IdleMerton

\* z_score = risk_models.altman_z_score(...)
AltmanZScore ==
    /\ ~z_score.computed
    /\ z_score' = [computed |-> TRUE, result |-> altman_z_score(altman_input)]
    /\ UNCHANGED <<altman_input, financial_ratios, ml_score, merton_input, merton_output>>
    /\ UNCHANGED NotAltman

NextAltman == AltmanZScore

-----------------------------------------------------------------------------
(* RiskModels.machine_learning_credit_scoring *)

\* the score with every condition written with >= and <=
CreditScoreInclusive(ratio_set) ==
    LET current_ratio == Get(ratio_set, "current_ratio", RZero)
        debt_to_equity == Get(ratio_set, "debt_to_equity", RZero)
        return_on_assets == Get(ratio_set, "return_on_assets", RZero)
        net_profit_margin == Get(ratio_set, "net_profit_margin", RZero)
        score == (IF RLeq(Rat(15, 10), current_ratio) THEN 25 ELSE 0)
                 + (IF RLeq(debt_to_equity, RInt(2)) THEN 25 ELSE 0)
                 + (IF RLeq(Rat(5, 100), return_on_assets) THEN 25 ELSE 0)
                 + (IF RLeq(Rat(1, 10), net_profit_margin) THEN 25 ELSE 0)
    IN  IF score < 100 THEN score ELSE 100

machine_learning_credit_scoring(ratio_set) ==
    LET current_ratio == Get(ratio_set, "current_ratio", RZero)
        debt_to_equity == Get(ratio_set, "debt_to_equity", RZero)
        return_on_assets == Get(ratio_set, "return_on_assets", RZero)
        net_profit_margin == Get(ratio_set, "net_profit_margin", RZero)
        score == (IF RLess(Rat(15, 10), current_ratio) THEN 25 ELSE 0)
                 + (IF RLess(debt_to_equity, RInt(2)) THEN 25 ELSE 0)
                 + (IF RLess(Rat(5, 100), return_on_assets) THEN 25 ELSE 0)
                 + (IF RLess(Rat(1, 10), net_profit_margin) THEN 25 ELSE 0)
    IN  IF score < 100 THEN score ELSE 100

\* The ratio sets scored: any of the four names read, and one name not read,
\* each value below, at or above the threshold it is compared with.
ScoredRatios == {"current_ratio", "debt_to_equity", "return_on_assets",
                 "net_profit_margin", "quick_ratio"}

Threshold(ratio) ==
    CASE ratio = "current_ratio" -> Rat(15, 10)
      [] ratio = "debt_to_equity" -> RInt(2)
      [] ratio = "return_on_assets" -> Rat(5, 100)
      [] ratio = "net_profit_margin" -> Rat(1, 10)
      [] OTHER -> ROne

RatioValues(ratio) ==
    IF ratio = "quick_ratio" THEN {ROne}
    ELSE {RSub(Threshold(ratio), Rat(1, 100)), Threshold(ratio),
          RAdd(Threshold(ratio), Rat(1, 100))}

RECURSIVE RatioSetsOver(_)
RatioSetsOver(keys) ==
    IF keys = {} THEN {<<>>}
    ELSE LET ratio == CHOOSE k \in keys : TRUE
             others == RatioSetsOver(keys \ {ratio})
         IN  others \cup {[k \in (DOMAIN given) \cup {ratio} |->
                              IF k = ratio THEN value ELSE given[k]] :
                             given \in others, value \in RatioValues(ratio)}

RatioSets == RatioSetsOver(ScoredRatios)

InitCredit ==
    /\ financial_ratios \in RatioSets
    /\ ml_score = NoCreditScore
    /\ IdleZScore
    /\ IdleMerton

\* ml_score = risk_models.machine_learning_credit_scoring(ratios)
MachineLearningCreditScoring ==
    /\ ~ml_score.computed
    /\ ml_score' = [computed |-> TRUE,
                    score |-> machine_learning_credit_scoring(financial_ratios)]
    /\ UNCHANGED <<altman_input, z_score, financial_ratios, merton_input, merton_output>>
    /\ UNCHANGED NotAltman

NextCredit == MachineLearningCreditScoring

-----------------------------------------------------------------------------
(* RiskModels.merton_structural_model.  A numpy float is a number, nan,    *)
(* inf or -inf.  A finite d1 or d2 is coef * log(log_of) + const, with     *)
(* exact rationals; the normal distribution function is left applied to    *)
(* its argument.                                                           *)

FloatNaN == [kind |-> "nan"]
FloatInf == [kind |-> "inf"]
FloatNegInf == [kind |-> "-inf"]
Exact(x) == [kind |-> "exact", value |-> x]
Affine(coef, log_of, const) ==
    [kind |-> "affine", coef |-> coef, log_of |-> log_of, const |-> const]

\* math.sqrt on the squares the model uses
ISqrt(n) == CHOOSE s \in 0..n : s * s = n

\* np.log: nan below 0, -inf at 0 (a warning, no exception)
NpLog(x) ==
    IF RLess(x, RZero) THEN FloatNaN
    ELSE IF x = RZero THEN FloatNegInf
    ELSE Affine(ROne, x, RZero)

\* float + rational
FloatAdd(f, x) ==
    IF f.kind = "affine" THEN Affine(f.coef, f.log_of, RAdd(f.const, x)) ELSE f

\* sign of coef * log(log_of) where const = 0
SignOfLog(f) ==
    IF RLess(ROne, f.log_of) THEN 1 ELSE IF f.log_of = ROne THEN 0 ELSE -1

\* numpy float / rational: division by 0.0 gives inf, -inf or nan (a
\* warning, no exception).  With volatility > 0 the divisor is 0 only for
\* time_to_maturity = 0, where the dividend is log(V / D) alone.
FloatDiv(f, x) ==
    IF f.kind # "affine" THEN f
    ELSE IF x = RZero
         THEN (IF SignOfLog(f) > 0 THEN FloatInf
               ELSE IF SignOfLog(f) < 0 THEN FloatNegInf ELSE FloatNaN)
         ELSE Affine(RDiv(f.coef, x), f.log_of, RDiv(f.const, x))

FloatNeg(f) ==
    CASE f.kind = "nan" -> f
      [] f.kind = "inf" -> FloatNegInf
      [] f.kind = "-inf" -> FloatInf
      [] f.kind = "affine" -> Affine(RNeg(f.coef), f.log_of, RNeg(f.const))

\* scipy.stats.norm.cdf
NormCdf(f) ==
    CASE f.kind = "nan" -> f
      [] f.kind = "inf" -> Exact(ROne)
      [] f.kind = "-inf" -> Exact(RZero)
      [] f.kind = "affine" -> [kind |-> "cdf", of |-> f]

\* return 0.5, 0
Fallback == [probability_default |-> Exact(Rat(1, 2)), distance_to_default |-> Exact(RZero)]

merton_structural_model(args) ==
    IF args.debt_face_value = 0
    THEN Fallback     \* company_value / debt_face_value raises ZeroDivisionError
    ELSE LET spread == RMul(args.volatility, RInt(ISqrt(args.time_to_maturity)))
             drift == RMul(RAdd(args.risk_free_rate,
                                RMul(Rat(1, 2), RPow(args.volatility, 2))),
                           RInt(args.time_to_maturity))
             d1 == FloatDiv(FloatAdd(NpLog(Rat(args.company_value, args.debt_face_value)),
                                     drift), spread)
             d2 == FloatAdd(d1, RNeg(spread))
         IN  [probability_default |-> NormCdf(FloatNeg(d2)), distance_to_default |-> d2]

CompanyValues == {-4, 0, 2, 4, 8}
DebtFaceValues == {-4, 0, 4}
RiskFreeRates == {RZero, Rat(5, 100)}
Volatilities == {Rat(1, 5), Rat(1, 2)}
Maturities == {0, 1, 4}

InitMerton ==
    /\ merton_input \in [company_value : CompanyValues, debt_face_value : DebtFaceValues,
                          risk_free_rate : RiskFreeRates, volatility : Volatilities,
                          time_to_maturity : Maturities]
    /\ merton_output = NoMertonOutput
    /\ IdleZScore
    /\ IdleCredit

\* probability_default, distance_to_default = merton_structural_model(...)
MertonStructuralModel ==
    /\ ~merton_output.computed
    /\ merton_output' =
          LET r == merton_structural_model(merton_input)
          IN  [computed |-> TRUE, probability_default |-> r.probability_default,
               distance_to_default |-> r.distance_to_default]
    /\ UNCHANGED <<altman_input, z_score, financial_ratios, ml_score, merton_input>>
    /\ UNCHANGED NotAltman

NextMerton == MertonStructuralModel

-----------------------------------------------------------------------------
(* RiskModels.monte_carlo_cashflow_simulation, over numpy's global random  *)
(* generator.  The generator is a deterministic sequence of states; a draw *)
(* reads the state and advances it.  The standard normal variate is cut to *)
(* three values.                                                           *)

Seed == 42

\* np.random.seed(n)
SeedState(n) == n % 4

\* one step of the generator
NextRandom(state) == (5 * state + 3) % 4

\* the standard normal variate drawn in a state
StandardNormal(state) == (state % 3) - 1

\* np.random.normal(loc, scale, size): the variates and the state after them
RECURSIVE RandomNormal(_, _, _, _)
RandomNormal(state, loc, scale, size) ==
    IF size = 0 THEN [values |-> <<>>, state |-> state]
    ELSE LET rest == RandomNormal(NextRandom(state), loc, scale, size - 1)
         IN  [values |-> <<RAdd(loc, RMul(scale, RInt(StandardNormal(state))))>>
                         \o rest.values,
              state |-> rest.state]

Mean(values) == RDiv(RSum(values), RInt(Len(values)))

\* the loop of lines 59-63 from period t on
RECURSIVE SimulatePeriods(_, _, _, _, _)
SimulatePeriods(t, state, current_cashflow, a, simulations_data) ==
    IF t >= a.periods THEN [data |-> simulations_data, state |-> state]
    ELSE LET drawn == RandomNormal(state, RZero, a.volatility, a.simulations)
             simulated_cashflows ==
                 [i \in DOMAIN drawn.values |->
                     RMul(current_cashflow, RAdd(ROne, drawn.values[i]))]
         IN  SimulatePeriods(t + 1, drawn.state, Mean(simulated_cashflows), a,
                             Append(simulations_data, simulated_cashflows))

\* the simulation started from the generator state it finds, without seeding
MonteCarloUnseeded(a, state) ==
    SimulatePeriods(0, state, RInt(a.base_cashflow), a, <<>>)

\* the periods-by-simulations matrix and the generator state left behind
monte_carlo_cashflow_simulation(a, state) ==
    SimulatePeriods(0, SeedState(Seed), RInt(a.base_cashflow), a, <<>>)

MonteCarloInputs ==
    [base_cashflow : {100}, volatility : {Rat(1, 10), Rat(1, 2)},
     periods : 1..MaxMCPeriods, simulations : 1..MaxSimulations]

NoMonteCarlo == [base_cashflow |-> 0, volatility |-> RZero, periods |-> 0, simulations |-> 0]

\* what the session has seen: the first simulation with the generator state
\* it found, and whether a later simulation was given the same arguments in
\* another generator state
NoHistory == [called |-> FALSE, input |-> NoMonteCarlo, output |-> <<>>,
              state_found |-> 0, repeated |-> FALSE]

InitMonteCarlo ==
    /\ np_random \in 0..3
    /\ mc_input = NoMonteCarlo
    /\ mc_output = <<>>
    /\ mc_first = NoHistory

IdleMonteCarlo ==
    /\ np_random = 0
    /\ mc_input = NoMonteCarlo
    /\ mc_output = <<>>
    /\ mc_first = NoHistory

MonteCarloSimulation(a) ==
    LET run == monte_carlo_cashflow_simulation(a, np_random)
    IN  /\ mc_input' = a
        /\ mc_output' = run.data
        /\ np_random' = run.state
        /\ mc_first' =
             IF ~mc_first.called
             THEN [NoHistory EXCEPT !.called = TRUE, !.input = a, !.output = run.data,
                                    !.state_found = np_random]
             ELSE IF a = mc_first.input /\ np_random # mc_first.state_found
                  THEN [mc_first EXCEPT !.repeated = TRUE]
                  ELSE mc_first
        /\ UNCHANGED NotMonteCarlo

\* any other use of the global generator between two simulations
OtherRandomDraw ==
    /\ np_random' = NextRandom(np_random)
    /\ UNCHANGED <<mc_input, mc_output, mc_first>>
    /\ UNCHANGED NotMonteCarlo

NextMonteCarlo ==
    \/ \E a \in MonteCarloInputs : MonteCarloSimulation(a)
    \/ OtherRandomDraw

-----------------------------------------------------------------------------
(* The session of the projections and reports pages: the projections      *)
(* button pressed again with other inputs, and the "Generate Comprehensive *)
(* Risk Assessment" button of the reports page, which reads the stored     *)
(* projections.                                                            *)

\* altman_z_score on the floats the reports page passes
AltmanOnFloats(working_capital, retained_earnings, ebit, market_value_equity, total_assets, total_liabilities) ==
    IF RIsZero(total_assets) THEN RZero
    ELSE RSum(<<RMul(Rat(12, 10), RDiv(working_capital, total_assets)),
                RMul(Rat(14, 10), RDiv(retained_earnings, total_assets)),
                RMul(Rat(33, 10), RDiv(ebit, total_assets)),
                RMul(Rat(6, 10), IF RLess(RZero, total_liabilities)
                                 THEN RDiv(market_value_equity, total_liabilities)
                                 ELSE RZero),
                total_assets>>)

interpret_altman_z_score(z) ==
    IF RLess(Rat(299, 100), z) THEN <<"Safe Zone", "Low bankruptcy risk">>
    ELSE IF RLess(Rat(181, 100), z) THEN <<"Grey Zone", "Moderate bankruptcy risk">>
    ELSE <<"Distress Zone", "High bankruptcy risk">>

\* the assessment assigned at line 132: Z-score and credit score
ScoresOf(state) ==
    LET latest_balance == state["balance_projections"][1]
        z == AltmanOnFloats(RSub(latest_balance.current_assets,
                                 latest_balance.current_liabilities),
                            RMul(latest_balance.equity, Rat(1, 2)),
                            state["income_projections"][1].ebit,
                            RMul(latest_balance.equity, Rat(3, 2)),
                            latest_balance.total_assets,
                            latest_balance.total_liabilities)
        credit_score == IF "financial_analysis" \in DOMAIN state
                    THEN machine_learning_credit_scoring(
                             Get(state["financial_analysis"], "ratios", <<>>))
                    ELSE 75
    IN  [altman_z_score |-> z,
         altman_zone |-> interpret_altman_z_score(z)[1],
         altman_interpretation |-> interpret_altman_z_score(z)[2],
         ml_credit_score |-> credit_score,
         ml_rating |-> IF credit_score >= 70 THEN "Good"
                       ELSE IF credit_score >= 50 THEN "Fair" ELSE "Poor"]

\* dscr_analysis['dscr'].min(), an unbounded dscr above every number
RECURSIVE MinDscr(_)
MinDscr(rows) ==
    IF Len(rows) = 1 THEN rows[1].dscr
    ELSE LET rest == MinDscr(Tail(rows))
         IN  IF rows[1].dscr.inf THEN rest
             ELSE IF rest.inf \/ RLess(rows[1].dscr.v, rest.v) THEN rows[1].dscr ELSE rest

\* CBKRegulations.generate_compliance_report
generate_compliance_report(loan_data) ==
    (IF loan_data.loan_amount * 4 <= loan_data.core_capital THEN <<>>
     ELSE <<"Exceeds single obligor limit (25% of core capital)">>)
    \o (IF ~loan_data.debt_service_ratio.inf
           /\ RLeq(loan_data.debt_service_ratio.v, Rat(1, 2)) THEN <<>>
        ELSE <<"Debt service ratio exceeds 50%">>)

ComplianceOf(state, report) ==
    LET violations ==
            generate_compliance_report(
                [loan_amount |-> report.loan_amount,
                 core_capital |-> report.core_capital,
                 debt_service_ratio |->
                     IF "dscr_analysis" \in DOMAIN state
                     THEN MinDscr(state["dscr_analysis"])
                     ELSE [inf |-> FALSE, v |-> Rat(35, 100)]])
    IN  [cbk_violations |-> violations, cbk_compliant |-> violations = <<>>]

Mean12(rows) ==
    RDiv(RSum([i \in DOMAIN rows |-> rows[i].operating_cashflow]), RInt(Len(rows)))

\* simulations.std() of monte_carlo_cashflow_simulation(base_cashflow, 0.15,
\* 12, 1000): after the seeding a function of base_cashflow alone
VolatilityOf(state) ==
    [cashflow_volatility |->
        [std_of_simulation_from |-> Mean12(state["cashflow_projections"])]]

\* the handler that keeps the assessment it finds and only adds to it
RiskHandlerKeepingAssessment(state, report) ==
    LET scored == IF "balance_projections" \in DOMAIN state
                     /\ "risk_assessment" \notin DOMAIN state
                  THEN Store(state, "risk_assessment", ScoresOf(state))
                  ELSE state
    IN  IF "risk_assessment" \notin DOMAIN scored
        THEN [raised |-> "AttributeError", state |-> scored, simulated |-> FALSE]
        ELSE LET checked == Store(scored, "risk_assessment",
                                  ComplianceOf(state, report) @@ scored["risk_assessment"])
                 simulated == "cashflow_projections" \in DOMAIN state
             IN  [raised |-> NoRaise,
                  state |-> IF simulated
                            THEN Store(checked, "risk_assessment",
                                       VolatilityOf(state) @@ checked["risk_assessment"])
                            ELSE checked,
                  simulated |-> simulated]

\* lines 103-157 of the reports page: the assessment is assigned only when
\* balance projections are stored; the compliance entries are written into
\* st.session_state.risk_assessment outside that branch, which raises when
\* there is no assessment
RiskHandler(state, report) ==
    LET scored == IF "balance_projections" \in DOMAIN state
                  THEN Store(state, "risk_assessment", ScoresOf(state))
                  ELSE state
    IN  IF "risk_assessment" \notin DOMAIN scored
        THEN [raised |-> "AttributeError", state |-> scored, simulated |-> FALSE]
        ELSE LET checked == Store(scored, "risk_assessment",
                                  ComplianceOf(state, report) @@ scored["risk_assessment"])
                 simulated == "cashflow_projections" \in DOMAIN state
             IN  [raised |-> NoRaise,
                  state |-> IF simulated
                            THEN Store(checked, "risk_assessment",
                                       VolatilityOf(state) @@ checked["risk_assessment"])
                            ELSE checked,
                  simulated |-> simulated]

\* the generator after n draws; its four states form one cycle
RECURSIVE AfterDraws(_, _)
AfterDraws(state, n) == IF n = 0 THEN state ELSE AfterDraws(NextRandom(state), n - 1)

\* the inputs of a session
SessionLoans == {[loan_amount |-> 0, interest_rate |-> 120, repayment_period |-> 2],
                 [loan_amount |-> 2, interest_rate |-> 120, repayment_period |-> 2],
                 [loan_amount |-> 2, interest_rate |-> 0, repayment_period |-> 1]}
SessionRevenues == {RInt(100), RInt(200)}
ReportInputs == {[loan_amount |-> 2, core_capital |-> 4],
                 [loan_amount |-> 2, core_capital |-> 40]}

InitSession ==
    /\ historical_data \in {HistoricalData(r, RInt(4)) : r \in SessionRevenues}
    /\ assumptions = Assumptions(Rat(25, 100), 0)
    /\ \E loan \in SessionLoans :
          /\ loan_amount = loan.loan_amount
          /\ interest_rate = loan.interest_rate
          /\ repayment_period = loan.repayment_period
    /\ periods = 1
    /\ repayment_schedule = NoSchedule
    /\ income_projections = <<>>
    /\ balance_projections = <<>>
    /\ cashflow_projections = <<>>
    /\ dscr_analysis = <<>>
    /\ session_state = <<>>
    /\ runs = 1
    /\ report_input = NoReport
    /\ proj_pc = "start"

\* the handler is not in the middle of a run
BetweenRuns == proj_pc \in {"start", "done", "raised"}

\* the projections button pressed again, with the inputs then on the page
NewRun ==
    /\ proj_pc \in {"done", "raised"}
    /\ runs < MaxRuns
    /\ runs' = runs + 1
    /\ historical_data' \in {HistoricalData(r, RInt(4)) : r \in SessionRevenues}
    /\ \E loan \in SessionLoans :
          /\ loan_amount' = loan.loan_amount
          /\ interest_rate' = loan.interest_rate
          /\ repayment_period' = loan.repayment_period
    /\ repayment_schedule' = NoSchedule
    /\ income_projections' = <<>>
    /\ balance_projections' = <<>>
    /\ cashflow_projections' = <<>>
    /\ dscr_analysis' = <<>>
    /\ proj_pc' = "start"
    /\ UNCHANGED <<assumptions, periods, session_state, report_input>>
    /\ UNCHANGED NotProj

\* the "Generate Comprehensive Risk Assessment" button
GenerateRiskAssessment ==
    /\ BetweenRuns
    /\ \E report \in ReportInputs :
          LET handled == RiskHandler(session_state, report)
          IN  /\ report_input' = report
              /\ session_state' = handled.state
              /\ np_random' = IF handled.simulated
                              THEN AfterDraws(SeedState(Seed), (12 * 1000) % 4)
                              ELSE np_random
    /\ UNCHANGED <<historical_data, assumptions, loan_amount, interest_rate,
                   repayment_period, periods, repayment_schedule, income_projections,
                   balance_projections, cashflow_projections, dscr_analysis, runs,
                   proj_pc>>
    /\ UNCHANGED <<mc_input, mc_output, mc_first>>
    /\ UNCHANGED <<data_vars, altman_vars, ratio_vars, upload_vars, metrics_vars>>

NextSession == NextProj \/ NewRun \/ GenerateRiskAssessment

-----------------------------------------------------------------------------
(* FinancialAnalyzer: the ratio functions, assess_against_benchmarks and   *)
(* comprehensive_ratio_analysis.  A metric set is a function from the keys *)
(* it holds to integers.                                                   *)

calculate_liquidity_ratios(current_assets, current_liabilities) ==
    IF current_liabilities = 0
    THEN [current_ratio |-> RZero, quick_ratio |-> RZero]
    ELSE [current_ratio |-> Rat(current_assets, current_liabilities),
          quick_ratio |-> Rat(current_assets, current_liabilities)]

calculate_profitability_ratios(revenue, net_income, total_assets, equity) ==
    [return_on_assets |-> IF total_assets > 0 THEN Rat(net_income, total_assets) ELSE RZero,
     return_on_equity |-> IF equity > 0 THEN Rat(net_income, equity) ELSE RZero,
     net_profit_margin |-> IF revenue > 0 THEN Rat(net_income, revenue) ELSE RZero]

\* the guards written as in calculate_liquidity_ratios: equity == 0, total_assets == 0
LeverageRatiosGuardedOnZero(total_liabilities, total_assets, equity) ==
    [debt_to_equity |-> IF equity # 0 THEN Rat(total_liabilities, equity) ELSE RZero,
     debt_to_assets |-> IF total_assets # 0 THEN Rat(total_liabilities, total_assets)
                        ELSE RZero]

calculate_leverage_ratios(total_liabilities, total_assets, equity) ==
    [debt_to_equity |-> IF equity > 0 THEN Rat(total_liabilities, equity) ELSE RZero,
     debt_to_assets |-> IF total_assets > 0 THEN Rat(total_liabilities, total_assets)
                        ELSE RZero]

calculate_efficiency_ratios(revenue, total_assets, accounts_receivable) ==
    [asset_turnover |-> IF total_assets > 0 THEN Rat(revenue, total_assets) ELSE RZero,
     receivables_turnover |-> IF accounts_receivable > 0
                              THEN Rat(revenue, accounts_receivable) ELSE RZero]

\* config/constants.py, INDUSTRY_BENCHMARKS; bounded tells a finite max
INDUSTRY_BENCHMARKS ==
    [current_ratio |-> [min |-> Rat(15, 10), bounded |-> TRUE, max |-> RInt(3)],
     debt_to_equity |-> [min |-> Rat(3, 10), bounded |-> TRUE, max |-> RInt(2)],
     debt_service_ratio |-> [min |-> Rat(15, 10), bounded |-> FALSE, max |-> RZero],
     roe |-> [min |-> Rat(15, 100), bounded |-> FALSE, max |-> RZero],
     roa |-> [min |-> Rat(5, 100), bounded |-> FALSE, max |-> RZero]]

\* both bounds exclusive
AssessWithExclusiveBounds(values) ==
    [ratio \in DOMAIN values |->
        IF ratio \in DOMAIN INDUSTRY_BENCHMARKS
        THEN LET benchmark == INDUSTRY_BENCHMARKS[ratio]
             IN  IF RLeq(values[ratio], benchmark.min) THEN "Below Benchmark"
                 ELSE IF benchmark.bounded /\ RLeq(benchmark.max, values[ratio])
                      THEN "Above Benchmark"
                      ELSE "Within Benchmark"
        ELSE "No Benchmark"]

assess_against_benchmarks(values) ==
    [ratio \in DOMAIN values |->
        IF ratio \in DOMAIN INDUSTRY_BENCHMARKS
        THEN LET benchmark == INDUSTRY_BENCHMARKS[ratio]
             IN  IF RLess(values[ratio], benchmark.min) THEN "Below Benchmark"
                 ELSE IF benchmark.bounded /\ RLess(benchmark.max, values[ratio])
                      THEN "Above Benchmark"
                      ELSE "Within Benchmark"
        ELSE "No Benchmark"]

\* dict.update: the entries of later over those of earlier
Update(earlier, later) ==
    [k \in (DOMAIN earlier) \cup (DOMAIN later) |->
        IF k \in DOMAIN later THEN later[k] ELSE earlier[k]]

comprehensive_ratio_analysis(data) ==
    LET values ==
            Update(Update(Update(
                calculate_liquidity_ratios(Get(data, "current_assets", 0),
                                           Get(data, "current_liabilities", 0)),
                calculate_profitability_ratios(Get(data, "revenue", 0),
                                               Get(data, "net_income", 0),
                                               Get(data, "total_assets", 0),
                                               Get(data, "equity", 0))),
                calculate_leverage_ratios(Get(data, "total_liabilities", 0),
                                          Get(data, "total_assets", 0),
                                          Get(data, "equity", 0))),
                calculate_efficiency_ratios(Get(data, "revenue", 0),
                                            Get(data, "total_assets", 0),
                                            Get(data, "accounts_receivable", 0)))
    IN  [values |-> values, assessment |-> assess_against_benchmarks(values)]

RatioKeys == {"current_assets", "current_liabilities", "revenue", "net_income",
              "total_assets", "equity", "total_liabilities", "accounts_receivable"}
MetricValues == {-2, 0, 3}

NoRatios == [computed |-> FALSE, values |-> <<>>, assessment |-> <<>>]

NoAssessment == [computed |-> FALSE, labels |-> <<>>]

\* no call of assess_against_benchmarks on its own
IdleBenchmarks ==
    /\ benchmark_ratios = <<>>
    /\ assessment = NoAssessment

\* no call of comprehensive_ratio_analysis
IdleAnalysis ==
    /\ financial_data = <<>>
    /\ ratios = NoRatios

InitRatios ==
    /\ financial_data \in UNION {[present -> MetricValues] : present \in SUBSET RatioKeys}
    /\ ratios = NoRatios
    /\ IdleBenchmarks

IdleRatios == IdleAnalysis /\ IdleBenchmarks

\* ratios = analyzer.comprehensive_ratio_analysis(metrics)
ComprehensiveRatioAnalysis ==
    /\ ~ratios.computed
    /\ ratios' = LET r == comprehensive_ratio_analysis(financial_data)
                 IN  [computed |-> TRUE, values |-> r.values, assessment |-> r.assessment]
    /\ UNCHANGED <<financial_data, benchmark_ratios, assessment>>
    /\ UNCHANGED NotRatios

NextRatios == ComprehensiveRatioAnalysis

\* The ratio bundles handed to assess_against_benchmarks on its own: any of
\* the names below, each with a value around the bounds of its benchmark.
BundleKeys == {"current_ratio", "debt_to_equity", "debt_service_ratio", "roe", "roa",
               "quick_ratio"}

BundleValues(ratio) ==
    IF ratio \in DOMAIN INDUSTRY_BENCHMARKS
    THEN LET benchmark == INDUSTRY_BENCHMARKS[ratio]
         IN  {RSub(benchmark.min, Rat(1, 100)), benchmark.min}
             \cup (IF benchmark.bounded
                   THEN {benchmark.max, RAdd(benchmark.max, Rat(1, 100))}
                   ELSE {RAdd(benchmark.min, RInt(1000))})
    ELSE {RZero, RInt(1)}

RECURSIVE BundlesOver(_)
BundlesOver(keys) ==
    IF keys = {} THEN {<<>>}
    ELSE LET ratio == CHOOSE k \in keys : TRUE
             others == BundlesOver(keys \ {ratio})
         IN  others \cup {Update(bundle, [k \in {ratio} |-> value]) :
                             bundle \in others, value \in BundleValues(ratio)}

Bundles == BundlesOver(BundleKeys)

InitBenchmarks ==
    /\ benchmark_ratios \in Bundles
    /\ assessment = NoAssessment
    /\ IdleAnalysis

\* assessment = analyzer.assess_against_benchmarks(ratios)
AssessAgainstBenchmarks ==
    /\ ~assessment.computed
    /\ assessment' = [computed |-> TRUE,
                      labels |-> assess_against_benchmarks(benchmark_ratios)]
    /\ UNCHANGED <<financial_data, ratios, benchmark_ratios>>
    /\ UNCHANGED NotRatios

NextBenchmarks == AssessAgainstBenchmarks

-----------------------------------------------------------------------------
(* DataProcessor.process_uploaded_files.  A file of the batch is its name  *)
(* and whether its parser (FileProcessor) returns or raises.               *)

\* file.name.split('.')[-1]
LastPart(name) ==
    LET dots == {i \in 1..Len(name) : CharAt(name, i) = "."}
    IN  IF dots = {} THEN name
        ELSE LET last == CHOOSE i \in dots : \A j \in dots : j <= i
             IN  SubSeq(name, last + 1, Len(name))

FileType(name) == Lower(LastPart(name))

\* the three parsers of FileProcessor: each returns the data or raises
\* Exception with its own message
process_excel_file(file) ==
    IF file.parses THEN [raised |-> NoRaise, data |-> "DataFrame", message |-> ""]
    ELSE [raised |-> "Exception", data |-> "None",
          message |-> "Error processing Excel file: unreadable"]

process_csv_file(file) ==
    IF file.parses THEN [raised |-> NoRaise, data |-> "DataFrame", message |-> ""]
    ELSE [raised |-> "Exception", data |-> "None",
          message |-> "Error processing CSV file: unreadable"]

extract_financial_data_from_pdf(file) ==
    IF file.parses THEN [raised |-> NoRaise, data |-> "dict", message |-> ""]
    ELSE [raised |-> "Exception", data |-> "None",
          message |-> "Error processing PDF: unreadable"]

\* what the loop has built so far
Results(data, errs, raised) == [processed_data |-> data, errors |-> errs, raised |-> raised]

Success(acc, file, data, type) ==
    Results(Update(acc.processed_data,
                   file.name :> [data |-> data, type |-> type, status |-> "success"]),
            acc.errors, NoRaise)

\* the handler lets the exception through
ExceptReraised(acc, file, file_type, e) ==
    Results(acc.processed_data, acc.errors, e.raised)

\* except Exception as e: the message is recorded and the file gets an error entry
Except(acc, file, file_type, e) ==
    LET error_msg == "Error processing " \o file.name \o ": " \o e.message
    IN  Results(Update(acc.processed_data,
                       file.name :> [data |-> "None", type |-> file_type,
                                     status |-> "error", error |-> error_msg]),
                Append(acc.errors, error_msg), NoRaise)

Unsupported(acc, file, file_type) ==
    Results(Update(acc.processed_data,
                   file.name :> [data |-> "None", type |-> file_type, status |-> "error",
                                 error |-> "Unsupported file type: " \o file_type]),
            Append(acc.errors,
                   "Unsupported file type: " \o file_type \o " for " \o file.name),
            NoRaise)

Parsed(acc, file, file_type, type, r) ==
    IF r.raised = NoRaise THEN Success(acc, file, r.data, type)
    ELSE Except(acc, file, file_type, r)

\* one iteration of the loop over uploaded_files
ProcessOneFile(acc, file) ==
    LET file_type == FileType(file.name)
    IN  IF file_type \in {"xlsx", "xls"}
        THEN Parsed(acc, file, file_type, "excel", process_excel_file(file))
        ELSE IF file_type = "csv"
        THEN Parsed(acc, file, file_type, "csv", process_csv_file(file))
        ELSE IF file_type = "pdf"
        THEN Parsed(acc, file, file_type, "pdf", extract_financial_data_from_pdf(file))
        ELSE Unsupported(acc, file, file_type)

FileNames == {"bs.xlsx", "is.CSV", "notes.pdf", "memo.txt", "README"}
Files == [name : FileNames, parses : BOOLEAN]

Batches == UNION {[1..n -> Files] : n \in 0..MaxFiles}

InitUpload ==
    /\ uploaded_files \in Batches
    /\ processed_data = <<>>
    /\ errors = <<>>
    /\ file_index = 1
    /\ attempted = {}
    /\ upload_pc = "loop"

IdleUpload ==
    /\ uploaded_files = <<>>
    /\ processed_data = <<>>
    /\ errors = <<>>
    /\ file_index = 1
    /\ attempted = {}
    /\ upload_pc = "idle"

\* for file in uploaded_files: one file
ProcessFile ==
    /\ upload_pc = "loop"
    /\ file_index <= Len(uploaded_files)
    /\ LET r == ProcessOneFile(Results(processed_data, errors, NoRaise),
                               uploaded_files[file_index])
       IN  /\ processed_data' = r.processed_data
           /\ errors' = r.errors
           /\ upload_pc' = IF r.raised = NoRaise THEN "loop" ELSE "raised"
    /\ attempted' = attempted \cup {file_index}
    /\ file_index' = file_index + 1
    /\ UNCHANGED uploaded_files
    /\ UNCHANGED NotUpload

\* return processed_data, errors
ReturnProcessed ==
    /\ upload_pc = "loop"
    /\ file_index > Len(uploaded_files)
    /\ upload_pc' = "returned"
    /\ UNCHANGED <<uploaded_files, processed_data, errors, file_index, attempted>>
    /\ UNCHANGED NotUpload

NextUpload == ProcessFile \/ ReturnProcessed

-----------------------------------------------------------------------------
(* DataProcessor.validate_financial_data and extract_financial_metrics on  *)
(* a cleaned table: its cells are floats (exact rationals here) or missing *)

Float(x) == [kind |-> "num", num |-> x, text |-> ""]

HasColumn(t, name) == \E c \in DOMAIN t.columns : t.columns[c] = name

\* the first column of that name
ColumnOf(t, name) ==
    CHOOSE c \in DOMAIN t.columns :
        /\ t.columns[c] = name
        /\ \A c2 \in DOMAIN t.columns : t.columns[c2] = name => c <= c2

\* two columns bear the name: df[name] is a DataFrame and row[name] a Series,
\* whose truth value raises ValueError
Duplicated(t, name) == Cardinality({c \in DOMAIN t.columns : t.columns[c] = name}) > 1

MetricLabelPool == <<"year", "revenue", "revenue", "cogs", "operating_expenses",
                     "total_assets", "total_liabilities", "equity">>

\* for every label of a cleaned table: which of the words the two functions
\* look for its lower-cased form contains (evaluated once per label)
LabelTerms ==
    LET Has(words, l) == \E w \in words : Contains(w, Lower(l))
    IN  [l \in {MetricLabelPool[i] : i \in DOMAIN MetricLabelPool} |->
            [financial |-> Has({"revenue", "income", "assets", "liabilities", "equity",
                                "profit", "cash"}, l),
             signed |-> Has({"change", "flow", "difference"}, l),
             date |-> Has({"date", "year"}, l),
             lower |-> Lower(l)]]

statement_requirements ==
    [income_statement |-> <<<<"revenue">>, <<"net_income">>>>,
     balance_sheet |-> <<<<"total_assets">>, <<"total_liabilities">>>>,
     cash_flow |-> <<<<"cash_flow_operating">>>>]

\* lines 226-250: the warning about the columns of the statement type
ColumnWarnings(t, type) ==
    LET lower == {LabelTerms[t.columns[c]].lower : c \in DOMAIN t.columns}
    IN  IF type \in DOMAIN statement_requirements
        THEN LET groups == statement_requirements[type]
                 missing == SelectSeq(groups,
                                LAMBDA g : ~\E i \in DOMAIN g : g[i] \in lower)
                 RECURSIVE Joined(_)
                 Joined(k) == IF k = 0 THEN ""
                              ELSE Joined(k - 1) \o (IF k > 1 THEN ", " ELSE "")
                                   \o "one of ['" \o missing[k][1] \o "']"
             IN  IF missing # <<>>
                 THEN <<"Missing recommended columns for " \o type \o ": "
                        \o Joined(Len(missing))>>
                 ELSE <<>>
        ELSE IF \E c \in DOMAIN t.columns : LabelTerms[t.columns[c]].financial
             THEN <<>>
             ELSE <<"No recognizable financial columns found">>

\* lines 254-260 from column c on: a numeric column with a value below 0 is
\* warned about unless its name tells a signed quantity; df[col].min() < 0
\* raises for a name borne by two columns
RECURSIVE NegativeValueWarnings(_, _, _)
NegativeValueWarnings(t, c, found) ==
    IF c > Len(t.columns) THEN [raised |-> NoRaise, warnings |-> found]
    ELSE IF ~IsNumericColumn(t, c) THEN NegativeValueWarnings(t, c + 1, found)
    ELSE IF Duplicated(t, t.columns[c]) THEN [raised |-> "ValueError", warnings |-> found]
    ELSE LET negative == \E r \in DOMAIN t.rows :
                            /\ t.rows[r][c].kind = "num"
                            /\ RLess(t.rows[r][c].num, RZero)
         IN  NegativeValueWarnings(t, c + 1,
                IF negative /\ ~LabelTerms[t.columns[c]].signed
                THEN Append(found, "Column " \o t.columns[c] \o " contains negative values")
                ELSE found)

\* lines 263-269
BalanceWarnings(t) ==
    IF HasColumn(t, "total_assets") /\ HasColumn(t, "total_liabilities")
    THEN IF Duplicated(t, "total_assets") \/ Duplicated(t, "total_liabilities")
         THEN [raised |-> "ValueError", warnings |-> <<>>]
         ELSE LET a == ColumnOf(t, "total_assets")
                  l == ColumnOf(t, "total_liabilities")
              IN  [raised |-> NoRaise,
                   warnings |->
                      IF \E r \in DOMAIN t.rows :
                            /\ t.rows[r][a].kind = "num"
                            /\ t.rows[r][l].kind = "num"
                            /\ RLess(t.rows[r][a].num, t.rows[r][l].num)
                      THEN <<"Total assets less than total liabilities in some periods">>
                      ELSE <<>>]
    ELSE [raised |-> NoRaise, warnings |-> <<>>]

validate_financial_data(t, type) ==
    IF t.is_none \/ IsEmpty(t)
    THEN [is_valid |-> FALSE, errors |-> <<"DataFrame is empty or None">>, warnings |-> <<>>]
    ELSE LET first == ColumnWarnings(t, type)
             negatives == IF type # "cash_flow" THEN NegativeValueWarnings(t, 1, first)
                          ELSE [raised |-> NoRaise, warnings |-> first]
             balance == IF type = "balance_sheet" /\ negatives.raised = NoRaise
                        THEN BalanceWarnings(t)
                        ELSE [raised |-> NoRaise, warnings |-> <<>>]
             warnings == negatives.warnings \o balance.warnings
         IN  IF negatives.raised = NoRaise /\ balance.raised = NoRaise
             THEN [is_valid |-> TRUE, errors |-> <<>>, warnings |-> warnings]
             ELSE [is_valid |-> FALSE,
                   errors |-> <<"Validation error: The truth value of a Series is ambiguous">>,
                   warnings |-> warnings]

MetricNames == <<"revenue", "net_income", "total_assets", "total_liabilities",
                 "current_assets", "current_liabilities", "equity", "gross_profit",
                 "operating_expenses", "ebit", "cogs">>

\* lines 161-172: the row the metrics are read from.  Rows that tie in the
\* date column are equal rows in the tables drawn below.
LatestRow(t) ==
    LET date_columns == SelectSeq(t.columns, LAMBDA col : LabelTerms[col].date)
    IN  IF Len(t.rows) > 1
        THEN IF date_columns # <<>>
             THEN LET d == ColumnOf(t, date_columns[1])
                      dated == {r \in DOMAIN t.rows : t.rows[r][d].kind = "num"}
                      latest == {r \in dated : \A r2 \in dated :
                                    RLeq(t.rows[r2][d].num, t.rows[r][d].num)}
                      among == IF dated = {} THEN DOMAIN t.rows ELSE latest
                  IN  CHOOSE r \in among : \A r2 \in among : r <= r2
             ELSE Len(t.rows)
        ELSE 1

\* the tolerance of the accounting equation taken as 1 instead of 0.01
EquityOffWide(calculated_equity, equity) ==
    LET difference == RSub(calculated_equity, equity)
    IN  RLess(ROne, IF RLess(difference, RZero) THEN RNeg(difference) ELSE difference)

\* abs(calculated_equity - equity) > 0.01
EquityOff(calculated_equity, equity) ==
    LET difference == RSub(calculated_equity, equity)
    IN  RLess(Rat(1, 100), IF RLess(difference, RZero) THEN RNeg(difference) ELSE difference)

\* the test of line 180 without "value != 0"
KeptOnlyIfPresent(cell) == cell.kind = "num"

\* pd.notna(value) and value != 0
Kept(cell) == cell.kind = "num" /\ ~RIsZero(cell.num)

\* An exception inside the try block gives {}: no table (len(None)), no row
\* (df.iloc[0]), a date or metric name borne by two columns.
extract_financial_metrics(t, type) ==
    IF t.is_none \/ t.rows = <<>> THEN <<>>
    ELSE IF \/ \E c \in DOMAIN t.columns :
                  LabelTerms[t.columns[c]].date /\ Duplicated(t, t.columns[c])
                     /\ Len(t.rows) > 1
            \/ \E k \in DOMAIN MetricNames : Duplicated(t, MetricNames[k])
    THEN <<>>
    ELSE LET row == LatestRow(t)
             direct ==
                 [metric \in {MetricNames[k] : k \in
                                {k \in DOMAIN MetricNames :
                                    /\ HasColumn(t, MetricNames[k])
                                    /\ Kept(t.rows[row][ColumnOf(t, MetricNames[k])])}} |->
                     t.rows[row][ColumnOf(t, metric)].num]
             with_gross_profit ==
                 IF "revenue" \in DOMAIN direct /\ "cogs" \in DOMAIN direct
                 THEN Update(direct, "gross_profit" :> RSub(direct["revenue"], direct["cogs"]))
                 ELSE direct
             with_ebit ==
                 IF /\ "gross_profit" \in DOMAIN with_gross_profit
                    /\ "operating_expenses" \in DOMAIN with_gross_profit
                 THEN Update(with_gross_profit,
                             "ebit" :> RSub(with_gross_profit["gross_profit"],
                                            with_gross_profit["operating_expenses"]))
                 ELSE with_gross_profit
             calculated_equity == RSub(direct["total_assets"], direct["total_liabilities"])
         IN  IF type = "income_statement" THEN with_ebit
             ELSE IF /\ type = "balance_sheet"
                     /\ "total_assets" \in DOMAIN direct
                     /\ "total_liabilities" \in DOMAIN direct
                     /\ \/ "equity" \notin DOMAIN direct
                        \/ EquityOff(calculated_equity, direct["equity"])
             THEN Update(direct, "equity" :> calculated_equity)
             ELSE direct

MetricRowKinds == {"void", "plain", "near", "off"}

\* the cell of row r of the given kind in column c bearing the label: a void
\* row has missing cells and zeros; the equity of a plain row is 0.5 off the
\* accounting equation, that of a near row 0.005, that of an off row 130
MetricCell(kind, label, r, c) ==
    IF kind = "void" THEN (IF c % 2 = 1 THEN NaN ELSE Float(RZero))
    ELSE IF label = "year" THEN Float(RInt(2030 - r))
    ELSE IF kind = "off" /\ label = "cogs" THEN NaN
    ELSE LET figures ==
                 [plain |-> [revenue |-> RInt(50), cogs |-> RInt(20),
                             operating_expenses |-> RInt(10), total_assets |-> RInt(100),
                             total_liabilities |-> RInt(40), equity |-> Rat(121, 2)],
                  near |-> [revenue |-> RInt(50), cogs |-> RInt(50),
                            operating_expenses |-> RZero, total_assets |-> RInt(100),
                            total_liabilities |-> RInt(40), equity |-> Rat(12001, 200)],
                  off |-> [revenue |-> RInt(-50), cogs |-> RInt(20),
                           operating_expenses |-> RInt(10), total_assets |-> RInt(40),
                           total_liabilities |-> RInt(100), equity |-> RInt(70)]]
         IN  Float(figures[kind][label])

MetricColumnChoices ==
    {SelectSeq2(MetricLabelPool, S) :
        S \in {S \in SUBSET (DOMAIN MetricLabelPool) : Cardinality(S) <= MaxMetricCols}}

StatementTypes == {"income_statement", "balance_sheet", "cash_flow", "unknown"}

NoValidation == [is_valid |-> TRUE, errors |-> <<>>, warnings |-> <<>>]

InitMetrics ==
    /\ \/ metrics_df = None
       \/ \E columns \in MetricColumnChoices :
             \E n \in 0..MaxMetricRows :
                \E kinds \in [1..n -> MetricRowKinds] :
                   metrics_df =
                      Table(columns,
                            [r \in 1..n |->
                               [c \in DOMAIN columns |->
                                  MetricCell(kinds[r], columns[c], r, c)]])
    /\ metrics_type \in StatementTypes
    /\ validation = NoValidation
    /\ metrics = <<>>
    /\ metrics_pc = "classified"

IdleMetrics ==
    /\ metrics_df = None
    /\ metrics_type = "unknown"
    /\ validation = NoValidation
    /\ metrics = <<>>
    /\ metrics_pc = "idle"

\* validation = processor.validate_financial_data(cleaned_data, statement_type)
ValidateFinancialData ==
    /\ metrics_pc = "classified"
    /\ validation' = validate_financial_data(metrics_df, metrics_type)
    /\ metrics_pc' = "validated"
    /\ UNCHANGED <<metrics_df, metrics_type, metrics>>
    /\ UNCHANGED NotMetrics

\* metrics = processor.extract_financial_metrics(cleaned_data, statement_type)
ExtractFinancialMetrics ==
    /\ metrics_pc = "validated"
    /\ metrics' = extract_financial_metrics(metrics_df, metrics_type)
    /\ metrics_pc' = "extracted"
    /\ UNCHANGED <<metrics_df, metrics_type, validation>>
    /\ UNCHANGED NotMetrics

NextMetrics == ValidateFinancialData \/ ExtractFinancialMetrics

-----------------------------------------------------------------------------
(* Specifications: one per component, the other components at rest *)

ProjInit ==
    InitProj /\ IdleData /\ IdleAltman /\ IdleMonteCarlo /\ IdleRatios /\ IdleUpload /\ IdleMetrics
SpecProj == ProjInit /\ [][NextProj]_vars

DataInit ==
    InitData /\ IdleProj /\ IdleAltman /\ IdleMonteCarlo /\ IdleRatios /\ IdleUpload /\ IdleMetrics
SpecData == DataInit /\ [][NextData]_vars

AltmanInit ==
    InitAltman /\ IdleProj /\ IdleData /\ IdleMonteCarlo /\ IdleRatios /\ IdleUpload /\ IdleMetrics
SpecAltman == AltmanInit /\ [][NextAltman]_vars

MonteCarloInit ==
    InitMonteCarlo /\ IdleProj /\ IdleData /\ IdleAltman /\ IdleRatios /\ IdleUpload /\ IdleMetrics
SpecMonteCarlo == MonteCarloInit /\ [][NextMonteCarlo]_vars

RatiosInit ==
    InitRatios /\ IdleProj /\ IdleData /\ IdleAltman /\ IdleMonteCarlo /\ IdleUpload /\ IdleMetrics
SpecRatios == RatiosInit /\ [][NextRatios]_vars

UploadInit ==
    InitUpload /\ IdleProj /\ IdleData /\ IdleAltman /\ IdleMonteCarlo /\ IdleRatios
    /\ IdleMetrics
SpecUpload == UploadInit /\ [][NextUpload]_vars

MetricsInit ==
    InitMetrics /\ IdleProj /\ IdleData /\ IdleAltman /\ IdleMonteCarlo /\ IdleRatios
    /\ IdleUpload
SpecMetrics == MetricsInit /\ [][NextMetrics]_vars

CreditInit ==
    InitCredit /\ IdleProj /\ IdleData /\ IdleMonteCarlo /\ IdleRatios /\ IdleUpload
    /\ IdleMetrics
SpecCredit == CreditInit /\ [][NextCredit]_vars

MertonInit ==
    InitMerton /\ IdleProj /\ IdleData /\ IdleMonteCarlo /\ IdleRatios /\ IdleUpload
    /\ IdleMetrics
SpecMerton == MertonInit /\ [][NextMerton]_vars

SessionInit ==
    InitSession /\ IdleData /\ IdleAltman /\ IdleMonteCarlo /\ IdleRatios /\ IdleUpload
    /\ IdleMetrics
SpecSession == SessionInit /\ [][NextSession]_vars

BenchmarksInit ==
    InitBenchmarks /\ IdleProj /\ IdleData /\ IdleAltman /\ IdleMonteCarlo /\ IdleUpload
    /\ IdleMetrics
SpecBenchmarks == BenchmarksInit /\ [][NextBenchmarks]_vars

\* the engine as a whole: one of the components at work
Init == ProjInit \/ DataInit \/ AltmanInit \/ MonteCarloInit \/ RatiosInit \/ UploadInit
        \/ MetricsInit \/ BenchmarksInit \/ CreditInit \/ MertonInit \/ SessionInit
Next == NextProj \/ NextData \/ NextAltman \/ NextMonteCarlo \/ NextRatios \/ NextUpload
        \/ NextMetrics \/ NextBenchmarks \/ NextCredit \/ NextMerton \/ NextSession
Spec == Init /\ [][Next]_vars

-----------------------------------------------------------------------------
(* Properties of process_uploaded_files *)

Supported(file) == FileType(file.name) \in {"xlsx", "xls", "csv", "pdf"}
Failed(file) == ~Supported(file) \/ ~file.parses
FailedFiles == {i \in DOMAIN uploaded_files : Failed(uploaded_files[i])}

\* the messages of errors that name the file
MessagesFor(name) == {j \in DOMAIN errors : Contains(name, errors[j])}

\* C12: a failure while processing one file never aborts the batch: the call
\* does not raise, every file of the batch is attempted, each file gets a
\* result entry whose status is 'success' or 'error', and an error message
\* is recorded for each failed file.
C12_FailureNeverAbortsBatch ==
    /\ upload_pc # "raised"
    /\ upload_pc = "returned" =>
          /\ attempted = DOMAIN uploaded_files
          /\ Len(errors) = Cardinality(FailedFiles)
          /\ \A i \in DOMAIN uploaded_files :
                LET file == uploaded_files[i]
                IN  /\ file.name \in DOMAIN processed_data
                    /\ processed_data[file.name].status \in {"success", "error"}
                    /\ processed_data[file.name].status = "error"
                          => "error" \in DOMAIN processed_data[file.name]
                    /\ Failed(file) => MessagesFor(file.name) # {}
                    /\ (\A k \in DOMAIN uploaded_files :
                            k > i => uploaded_files[k].name # file.name)
                          => (processed_data[file.name].status = "error" <=> Failed(file))

C12_WitnessLaterFileProcessedAfterFailure ==
    /\ upload_pc = "returned"
    /\ Len(uploaded_files) = 2
    /\ Supported(uploaded_files[1])
    /\ ~uploaded_files[1].parses
    /\ uploaded_files[2].name # uploaded_files[1].name
    /\ processed_data[uploaded_files[1].name].status = "error"
    /\ processed_data[uploaded_files[2].name].status = "success"
    /\ Len(errors) = 1

C12_WitnessUnsupportedType ==
    /\ upload_pc = "returned"
    /\ Len(uploaded_files) = 2
    /\ uploaded_files[1].name = "README"
    /\ processed_data["README"].type = "readme"
    /\ processed_data[uploaded_files[2].name].status = "success"

\* C26: no engine operation modifies its inputs or any state shared between
\* calls: a call of monte_carlo_cashflow_simulation leaves the state of the
\* global random generator as it found it.
C26_SimulationLeavesGeneratorUnchanged ==
    [][(\E a \in MonteCarloInputs : MonteCarloSimulation(a))
          => np_random' = np_random]_vars

\* C26, as far as the code goes: the simulation seeds the global generator and
\* draws periods * simulations variates from it, whatever state it was in.
C26_SimulationReseedsGenerator ==
    [][\A a \in MonteCarloInputs :
          MonteCarloSimulation(a)
             => np_random' = AfterDraws(SeedState(Seed), a.periods * a.simulations)]_vars

C26_WitnessGeneratorMoved ==
    /\ mc_first.called
    /\ mc_input = mc_first.input
    /\ mc_input.periods = 2
    /\ np_random = AfterDraws(SeedState(Seed), 2 * mc_input.simulations)
    /\ np_random # mc_first.state_found
    /\ mc_first.state_found # SeedState(Seed)

\* C29: a raw table whose columns are "Operating Cash Flow", "Investing Cash
\* Flow" and "Financing Cash Flow", with non-zero data, cleaned and then
\* classified as the pipeline does, is classified as cash_flow.
C29_CashFlowTableClassifiedCashFlow ==
    (data_pc = "classified" /\ df # None /\ df.columns = CashFlowLabels
        /\ cleaned_data.table.rows # <<>>)
       => statement_type = "cash_flow"

\* C29, as far as the code goes: the columns are renamed to the standard names
\* cash_flow_operating, cash_flow_investing and cash_flow_financing, none of
\* which holds an indicator, and the table is classified as unknown.
C29_CashFlowTableRenamedAndUnknown ==
    (data_pc = "classified" /\ df # None /\ df.columns = CashFlowLabels)
       => /\ \A c \in DOMAIN cleaned_data.table.columns :
                cleaned_data.table.columns[c]
                   \in {"cash_flow_operating", "cash_flow_investing", "cash_flow_financing"}
          /\ statement_type = "unknown"

C29_WitnessCashFlowTableUnknown ==
    /\ data_pc = "classified"
    /\ df # None
    /\ df.columns = CashFlowLabels
    /\ Len(cleaned_data.table.rows) = 1
    /\ cleaned_data.table.columns
          = <<"cash_flow_operating", "cash_flow_investing", "cash_flow_financing">>
    /\ \A c \in 1..3 : cleaned_data.table.rows[1][c] = Num(10 * c)
    /\ statement_type = "unknown"

\* process_uploaded_files on a whole batch
RECURSIVE ProcessAll(_, _)
ProcessAll(acc, batch) ==
    IF batch = <<>> THEN acc ELSE ProcessAll(ProcessOneFile(acc, Head(batch)), Tail(batch))

ResultOf(batch) == ProcessAll(Results(<<>>, <<>>, NoRaise), batch)

\* the orders the batch can be given in
Reorderings(batch) ==
    {[i \in DOMAIN batch |-> batch[order[i]]] :
        order \in {f \in [DOMAIN batch -> DOMAIN batch] :
                      \A i, j \in DOMAIN batch : f[i] = f[j] => i = j}}

ErrorSet(errs) == {errs[j] : j \in DOMAIN errs}

SameResult(batch) ==
    /\ ResultOf(batch).processed_data = processed_data
    /\ ErrorSet(ResultOf(batch).errors) = ErrorSet(errors)

DistinctNames(batch) ==
    \A i, j \in DOMAIN batch : batch[i].name = batch[j].name => i = j

\* C27: the result of process_uploaded_files does not depend on the order of
\* the files in the batch: for every permutation of the batch the returned
\* mapping from file name to result entry is the same, and the set of
\* recorded errors is the same.
C27_ResultIndependentOfOrder ==
    upload_pc = "returned" =>
        \A batch \in Reorderings(uploaded_files) : SameResult(batch)

\* C27, as far as the code goes: the same for batches whose file names are
\* all different; of two files of one name the later one keeps the entry.
C27_OrderIndependentForDistinctNames ==
    upload_pc = "returned" =>
        /\ DistinctNames(uploaded_files) =>
              \A batch \in Reorderings(uploaded_files) : SameResult(batch)
        /\ \A i \in DOMAIN uploaded_files :
              (\A k \in DOMAIN uploaded_files :
                  k > i => uploaded_files[k].name # uploaded_files[i].name)
                 => processed_data[uploaded_files[i].name]
                      = ResultOf(<<uploaded_files[i]>>).processed_data[uploaded_files[i].name]

C27_WitnessSameNameOrderMatters ==
    /\ upload_pc = "returned"
    /\ Len(uploaded_files) = 2
    /\ uploaded_files[1].name = uploaded_files[2].name
    /\ uploaded_files[1].parses
    /\ ~uploaded_files[2].parses
    /\ processed_data[uploaded_files[1].name].status = "error"
    /\ ResultOf(<<uploaded_files[2], uploaded_files[1]>>)
          .processed_data[uploaded_files[1].name].status = "success"

C27_WitnessDistinctNamesReordered ==
    /\ upload_pc = "returned"
    /\ Len(uploaded_files) = 2
    /\ uploaded_files[1].name # uploaded_files[2].name
    /\ ~uploaded_files[1].parses
    /\ ~Supported(uploaded_files[2])
    /\ ResultOf(<<uploaded_files[2], uploaded_files[1]>>).errors # errors
    /\ SameResult(<<uploaded_files[2], uploaded_files[1]>>)

-----------------------------------------------------------------------------
(* Properties of the projection run *)

RemainingNonIncreasing(rows) ==
    \A m \in 1..(Len(rows) - 1) :
        RLeq(rows[m + 1].remaining_balance, rows[m].remaining_balance)

PrincipalComponents(rows) == [m \in DOMAIN rows |-> rows[m].principal]

ScheduleSound(schedule, loan, n) ==
    /\ schedule.raised = NoRaise
    /\ Len(schedule.rows) = n
    /\ RemainingNonIncreasing(schedule.rows)
    /\ RIsZero(schedule.rows[n].remaining_balance)
    /\ RSum(PrincipalComponents(schedule.rows)) = RInt(loan)

\* C1: for every LoanTerms with principal > 0, annual_interest_rate >= 0
\* (0 included) and term_months >= 1, calculate_loan_repayment_schedule
\* returns a schedule (does not fail) whose remaining_balance is
\* non-increasing, is 0 at month = term_months, and whose principal
\* components sum to the principal.
C1_ScheduleForEveryValidLoan ==
    (proj_pc # "start" /\ loan_amount > 0 /\ interest_rate >= 0 /\ repayment_period >= 1)
        => ScheduleSound(repayment_schedule, loan_amount, repayment_period)

\* C1, as far as the code goes: the same for every interest rate above 0.
C1_ScheduleForPositiveRate ==
    (proj_pc # "start" /\ loan_amount > 0 /\ interest_rate > 0 /\ repayment_period >= 1)
        => ScheduleSound(repayment_schedule, loan_amount, repayment_period)

C1_ZeroRateRaises ==
    /\ proj_pc = "raised"
    /\ loan_amount > 0
    /\ interest_rate = 0
    /\ repayment_schedule.raised = "ZeroDivisionError"

\* C7: in every row of the DSCR series, status is "Adequate" if and only if
\* dscr >= 1.25 (exactly 1.25 and an unbounded dscr included); otherwise it
\* is "Inadequate".
C7_StatusAdequateIffDscrAtLeast125 ==
    \A i \in DOMAIN dscr_analysis :
        LET r == dscr_analysis[i]
        IN  /\ r.status \in {"Adequate", "Inadequate"}
            /\ (r.status = "Adequate") <=> (r.dscr.inf \/ 4 * r.dscr.v.n >= 5 * r.dscr.v.d)

C7_WitnessExactly125 ==
    /\ proj_pc = "done"
    /\ Len(dscr_analysis) >= 1
    /\ ~dscr_analysis[1].dscr.inf
    /\ dscr_analysis[1].dscr.v = Rat(5, 4)
    /\ dscr_analysis[1].status = "Adequate"

C7_WitnessUnbounded ==
    /\ proj_pc = "done"
    /\ \E i \in DOMAIN dscr_analysis :
          dscr_analysis[i].dscr.inf /\ dscr_analysis[i].status = "Adequate"

C7_WitnessInadequate ==
    /\ proj_pc = "done"
    /\ \E i \in DOMAIN dscr_analysis : dscr_analysis[i].status = "Inadequate"

\* the payments of the schedule that fall in months 12(t-1)+1 .. 12t
PaymentsOfYear(t) ==
    LET due == SelectSeq(repayment_schedule.rows,
                         LAMBDA row : 12 * (t - 1) + 1 <= row.month /\ row.month <= 12 * t)
    IN  RSum([m \in DOMAIN due |-> due[m].payment])

DebtServiceOfYear(t) == RAdd(income_projections[t].interest_expense, PaymentsOfYear(t))

\* C16: for each projected year t the DSCR series has
\* dscr = ebitda_t / (interest_expense_t + the schedule's payments of months
\* 12(t-1)+1 .. 12t); when that total debt service is 0 the dscr is
\* unbounded and no division error occurs.
C16_DscrIsEbitdaOverDebtService ==
    proj_pc = "done" =>
        /\ Len(dscr_analysis) = periods
        /\ \A t \in DOMAIN dscr_analysis :
              /\ dscr_analysis[t].year = t
              /\ dscr_analysis[t].total_debt_service = DebtServiceOfYear(t)
              /\ IF RIsZero(DebtServiceOfYear(t))
                 THEN dscr_analysis[t].dscr.inf
                 ELSE /\ ~dscr_analysis[t].dscr.inf
                      /\ dscr_analysis[t].dscr.v
                           = RDiv(income_projections[t].ebitda, DebtServiceOfYear(t))

C16_WitnessPaymentsInFirstYearOnly ==
    /\ proj_pc = "done"
    /\ Len(dscr_analysis) = 2
    /\ RLess(RZero, PaymentsOfYear(1))
    /\ RIsZero(PaymentsOfYear(2))
    /\ ~dscr_analysis[1].dscr.inf
    /\ ~dscr_analysis[2].dscr.inf
    /\ RLess(dscr_analysis[1].dscr.v, dscr_analysis[2].dscr.v)

C16_WitnessNoDebtService ==
    /\ proj_pc = "done"
    /\ Len(repayment_schedule.rows) >= 1
    /\ \E t \in DOMAIN dscr_analysis :
          /\ RIsZero(DebtServiceOfYear(t))
          /\ RLess(RZero, income_projections[t].ebitda)
          /\ dscr_analysis[t].dscr.inf

CashFlowProjected == proj_pc \in {"cashflow", "dscr", "done"}

\* C23: with a loan, financing_cashflow is +principal in year 1 and, for
\* every year t >= 2, minus the sum of the schedule's payments in months
\* 12(t-1)+1 .. 12t (0 once the schedule has no more months); with no loan
\* it is 0 in every year; and in every row net_cashflow is the sum of the
\* operating, investing and financing cash flows.
C23_FinancingIsDrawdownThenPayments ==
    CashFlowProjected =>
        /\ Len(cashflow_projections) = periods
        /\ \A t \in DOMAIN cashflow_projections :
              LET row == cashflow_projections[t]
              IN  /\ row.year = t
                  /\ row.financing_cashflow =
                       (IF loan_amount = 0 THEN RZero
                        ELSE IF t = 1 THEN RInt(loan_amount)
                        ELSE RNeg(PaymentsOfYear(t)))
                  /\ row.net_cashflow =
                       RAdd(row.operating_cashflow,
                            RAdd(row.investing_cashflow, row.financing_cashflow))

C23_WitnessPaymentsInSecondYear ==
    /\ CashFlowProjected
    /\ loan_amount > 0
    /\ Len(repayment_schedule.rows) = 13
    /\ Len(cashflow_projections) >= 2
    /\ cashflow_projections[1].financing_cashflow = RInt(loan_amount)
    /\ cashflow_projections[2].financing_cashflow = RNeg(repayment_schedule.rows[13].payment)
    /\ RLess(cashflow_projections[2].financing_cashflow, RZero)

C23_WitnessScheduleOver ==
    /\ CashFlowProjected
    /\ loan_amount > 0
    /\ Len(repayment_schedule.rows) <= 12
    /\ Len(cashflow_projections) >= 2
    /\ cashflow_projections[2].financing_cashflow = RZero

C23_WitnessNoLoan ==
    /\ CashFlowProjected
    /\ loan_amount = 0
    /\ Len(cashflow_projections) >= 2
    /\ \A t \in DOMAIN cashflow_projections :
          cashflow_projections[t].financing_cashflow = RZero
    /\ ~RIsZero(cashflow_projections[1].net_cashflow)

BalanceProjected == proj_pc \in {"balance", "cashflow", "dscr", "done"}

\* the month count project_balance_sheet writes the loan off over
WriteOffPeriod ==
    IF "repayment_period" \in DOMAIN assumptions THEN assumptions["repayment_period"] ELSE 60

\* max(0, principal - (t-1) * principal / (repayment_period/12)), or 0 beyond the term
StraightLineBalance(t) ==
    IF 12 * t > WriteOffPeriod THEN RZero
    ELSE LET left == RSub(RInt(loan_amount),
                          Rat(12 * (t - 1) * loan_amount, WriteOffPeriod))
         IN  IF RLess(left, RZero) THEN RZero ELSE left

\* C24: with loan_amount > 0, the loan_balance of projected year t is 0 when
\* t > repayment_period/12 and otherwise
\* max(0, principal - (t-1) * principal / (repayment_period/12)), with the
\* assumptions' month count (60 when there is none); loan_balance is
\* non-increasing in t and never negative, and total_liabilities is the
\* grown existing liabilities plus loan_balance.
C24_LoanBalanceStraightLine ==
    (BalanceProjected /\ loan_amount > 0) =>
        /\ Len(balance_projections) = periods
        /\ \A t \in DOMAIN balance_projections :
              LET row == balance_projections[t]
              IN  /\ row.loan_balance = StraightLineBalance(t)
                  /\ RLeq(RZero, row.loan_balance)
                  /\ 12 * t > WriteOffPeriod => row.loan_balance = RZero
                  /\ t > 1 => RLeq(row.loan_balance, balance_projections[t - 1].loan_balance)
                  /\ row.total_liabilities =
                       RAdd(RMul(historical_data.total_liabilities, RPow(Rat(103, 100), t)),
                            row.loan_balance)

C24_WitnessBeyondTerm ==
    /\ BalanceProjected
    /\ loan_amount > 0
    /\ WriteOffPeriod = 18
    /\ Len(balance_projections) >= 2
    /\ balance_projections[1].loan_balance = RInt(loan_amount)
    /\ balance_projections[2].loan_balance = RZero
    /\ ~RIsZero(balance_projections[2].total_liabilities)

C24_WitnessHalfWrittenOff ==
    /\ BalanceProjected
    /\ loan_amount = 4
    /\ WriteOffPeriod = 24
    /\ Len(balance_projections) >= 2
    /\ balance_projections[2].loan_balance = RInt(2)

C24_WitnessDefaultSixtyMonths ==
    /\ BalanceProjected
    /\ loan_amount = 4
    /\ "repayment_period" \notin DOMAIN assumptions
    /\ repayment_period = 1
    /\ Len(balance_projections) >= 2
    /\ balance_projections[2].loan_balance = Rat(16, 5)

-----------------------------------------------------------------------------
(* Properties of the session: projection runs and the risk assessment *)

\* the stored assessment, if there is one
StoredAssessment(state) ==
    IF "risk_assessment" \in DOMAIN state THEN <<state["risk_assessment"]>> ELSE <<>>

\* the assessment with every field computed from the stored projections
WholeAssessment(state, report) ==
    VolatilityOf(state) @@ ComplianceOf(state, report) @@ ScoresOf(state)

\* C25: the stored risk assessment is never incrementally mutated: every
\* step either leaves it unchanged or replaces it by one in which every
\* field was computed in that step from the projections then stored.
C25_AssessmentReplacedWholesale ==
    [][\/ StoredAssessment(session_state') = StoredAssessment(session_state)
       \/ /\ "balance_projections" \in DOMAIN session_state
          /\ StoredAssessment(session_state')
               = <<WholeAssessment(session_state, report_input')>>]_vars

C25_WitnessAssessedAfterSecondRun ==
    /\ runs = 2
    /\ proj_pc = "done"
    /\ "risk_assessment" \in DOMAIN session_state
    /\ session_state["balance_projections"] = balance_projections
    /\ session_state["risk_assessment"] = WholeAssessment(session_state, report_input)
    /\ session_state["risk_assessment"].altman_zone = "Safe Zone"
    /\ ~session_state["risk_assessment"].cbk_compliant

C25_WitnessEarlierAssessmentBeforeSecondRun ==
    /\ runs = 2
    /\ proj_pc = "start"
    /\ "risk_assessment" \in DOMAIN session_state

C25_WitnessNothingStoredWithoutProjections ==
    /\ report_input # NoReport
    /\ "balance_projections" \notin DOMAIN session_state
    /\ "risk_assessment" \notin DOMAIN session_state

ScheduleOfThisRun ==
    /\ repayment_schedule.raised = NoRaise
    /\ repayment_schedule =
         calculate_loan_repayment_schedule(loan_amount, interest_rate, repayment_period)

IncomeOfThisRun ==
    income_projections =
        project_income_statement(historical_data, assumptions, periods, loan_amount,
                                 interest_rate)

RunOver == proj_pc \in {"done", "raised"}

\* C28: in every projection run the schedule is computed before the DSCR
\* series and the cash-flow projection, and the income projection before
\* the balance-sheet and cash-flow projections; the DSCR series and
\* cash-flow projection stored after a run are computed from the schedule
\* and income projection of that same run.
C28_StagesInOrderAndStoredFromSameRun ==
    /\ balance_projections # <<>> => IncomeOfThisRun
    /\ cashflow_projections # <<>> =>
          /\ ScheduleOfThisRun
          /\ IncomeOfThisRun
          /\ balance_projections # <<>>
          /\ cashflow_projections =
               project_cash_flow(assumptions, income_projections, balance_projections,
                                 loan_amount, repayment_schedule)
    /\ dscr_analysis # <<>> =>
          /\ ScheduleOfThisRun
          /\ IncomeOfThisRun
          /\ dscr_analysis =
               calculate_debt_service_coverage_ratio(income_projections,
                                                     repayment_schedule)
    /\ (RunOver /\ "dscr_analysis" \in DOMAIN session_state) =>
          /\ session_state["dscr_analysis"] =
               calculate_debt_service_coverage_ratio(session_state["income_projections"],
                                                     session_state["repayment_schedule"])
          /\ \E loan \in SessionLoans :
                session_state["cashflow_projections"] =
                    project_cash_flow(assumptions, session_state["income_projections"],
                                      session_state["balance_projections"],
                                      loan.loan_amount,
                                      session_state["repayment_schedule"])
    /\ proj_pc = "done" =>
          /\ session_state["repayment_schedule"] = repayment_schedule
          /\ session_state["income_projections"] = income_projections
          /\ session_state["cashflow_projections"] = cashflow_projections
          /\ session_state["dscr_analysis"] = dscr_analysis

C28_WitnessSecondRunStored ==
    /\ runs = 2
    /\ proj_pc = "done"
    /\ historical_data.revenue = RInt(200)
    /\ loan_amount = 2
    /\ session_state["dscr_analysis"] = dscr_analysis
    /\ session_state["income_projections"][1].revenue = RInt(200)

C28_WitnessFailedRunKeepsEarlierResults ==
    /\ runs = 2
    /\ proj_pc = "raised"
    /\ "dscr_analysis" \in DOMAIN session_state
    /\ session_state["repayment_schedule"] # repayment_schedule

-----------------------------------------------------------------------------
(* Properties of the file pipeline *)

Classified == data_pc = "classified"
Cleaned == data_pc \in {"cleaned", "classified"}

\* the table as _map_column_names receives it
Trimmed == DropEmptyColumns(DropEmptyRows(df))

RotateLeft(s) == IF s = <<>> THEN s ELSE Tail(s) \o <<Head(s)>>
SwapFirstTwo(s) == IF Len(s) < 2 THEN s ELSE <<s[2], s[1]>> \o SubSeq(s, 3, Len(s))

\* C2: detect_financial_statement_type depends only on the column labels:
\* the type found for a table is the type of every table with the same
\* labels in another order and with other rows (here: no rows).
C2_TypeDependsOnLabelsOnly ==
    Classified =>
        LET t == cleaned_data.table
        IN  \A columns \in {t.columns, Reverse(t.columns), RotateLeft(t.columns),
                            SwapFirstTwo(t.columns)} :
                /\ detect_financial_statement_type(Table(columns, <<>>)) = statement_type
                /\ detect_financial_statement_type(
                       Table(columns, [r \in DOMAIN t.rows |-> Reverse(t.rows[r])]))
                     = statement_type

C2_WitnessTieDecidedOverSeveralColumns ==
    /\ Classified
    /\ Len(cleaned_data.table.columns) >= 3
    /\ cleaned_data.table.rows # <<>>
    /\ cleaned_data.table.columns[1] = "revenue"
    /\ Score(income_indicators, cleaned_data.table.columns)
         = Score(cashflow_indicators, cleaned_data.table.columns)
    /\ statement_type = "cash_flow"

\* the three scores of the cleaned table, counted label by label
LabelHas(label, word) == word \in KeywordTable[label]

ScoreOf(indicators) ==
    Cardinality({i \in DOMAIN indicators :
                    \E c \in DOMAIN cleaned_data.table.columns :
                        LabelHas(cleaned_data.table.columns[c], indicators[i])})

SomeLabelHas(word) ==
    \E c \in DOMAIN cleaned_data.table.columns :
        LabelHas(cleaned_data.table.columns[c], word)

\* C3: 'unknown' when all three scores are 0; the category with the strictly
\* highest score when there is one; on a tie at the maximum (> 0) cash_flow
\* if a label contains "cash flow", else balance_sheet if a label contains
\* "assets" and a label contains "liabilities", else income_statement.
C3_ClassificationRule ==
    Classified =>
        LET i == ScoreOf(income_indicators)
            b == ScoreOf(balance_indicators)
            c == ScoreOf(cashflow_indicators)
        IN  statement_type =
              (IF i = 0 /\ b = 0 /\ c = 0 THEN "unknown"
               ELSE IF i > b /\ i > c THEN "income_statement"
               ELSE IF b > i /\ b > c THEN "balance_sheet"
               ELSE IF c > i /\ c > b THEN "cash_flow"
               ELSE IF SomeLabelHas("cash flow") THEN "cash_flow"
               ELSE IF SomeLabelHas("assets") /\ SomeLabelHas("liabilities")
                    THEN "balance_sheet"
                    ELSE "income_statement")

C3_WitnessTieWithoutLiabilities ==
    /\ Classified
    /\ ScoreOf(income_indicators) = 1
    /\ ScoreOf(balance_indicators) = 1
    /\ ScoreOf(cashflow_indicators) = 0
    /\ SomeLabelHas("assets")
    /\ statement_type = "income_statement"

C3_WitnessTieAssetsAndLiabilities ==
    /\ Classified
    /\ ScoreOf(income_indicators) = 2
    /\ ScoreOf(balance_indicators) = 2
    /\ statement_type = "balance_sheet"

C3_WitnessTieCashFlow ==
    /\ Classified
    /\ ScoreOf(balance_indicators) = 1
    /\ ScoreOf(cashflow_indicators) = 1
    /\ ScoreOf(income_indicators) <= 1
    /\ statement_type = "cash_flow"

C3_WitnessUnknown ==
    /\ Classified
    /\ cleaned_data.table.columns # <<>>
    /\ statement_type = "unknown"

C3_WitnessStrictlyHighest ==
    /\ Classified
    /\ ScoreOf(income_indicators) = 2
    /\ ScoreOf(balance_indicators) = 1
    /\ statement_type = "income_statement"

ScenarioColumns == <<"Total Revenue", "Net Profit After Tax", "Total Assets",
                     "Total Liabilities">>

\* one data row, every cell of it present and not zero
OneNonZeroDataRow(t) ==
    /\ Len(t.rows) = 1
    /\ \A c \in DOMAIN t.columns :
          /\ t.rows[1][c].kind # "nan"
          /\ t.rows[1][c].kind = "num" => t.rows[1][c].num # 0

\* C4: the table with the columns Total Revenue, Net Profit After Tax,
\* Total Assets, Total Liabilities and one non-zero data row, cleaned and
\* then classified, is classified as balance_sheet.
C4_ScenarioIsBalanceSheet ==
    (Classified /\ ~df.is_none /\ df.columns = ScenarioColumns /\ OneNonZeroDataRow(df))
        => statement_type = "balance_sheet"

C4_WitnessScenarioClassified ==
    /\ Classified
    /\ ~df.is_none
    /\ df.columns = ScenarioColumns
    /\ OneNonZeroDataRow(df)
    /\ cleaned_data.table.columns
         = <<"revenue", "net_income", "total_assets", "total_liabilities">>
    /\ Len(cleaned_data.table.rows) = 1
    /\ statement_type = "balance_sheet"

ScenarioClassified ==
    /\ Classified
    /\ ~df.is_none
    /\ df.columns = ScenarioColumns
    /\ Len(cleaned_data.table.columns) = 4

MatchingKeys(label) == MatchTable[label]

FirstKey(label) == CHOOSE k \in MatchingKeys(label) : \A j \in MatchingKeys(label) : k <= j

\* C5: a source column labelled "assets" (any case, surrounding blanks
\* ignored) is renamed to total_assets.
C5_AssetsBecomesTotalAssets ==
    Cleaned =>
        \A c \in DOMAIN Trimmed.columns :
            Strip(Lower(Trimmed.columns[c])) = "assets"
                => cleaned_data.table.columns[c] = "total_assets"

C5_AssetsBecomesCurrentAssets ==
    /\ Cleaned
    /\ \E c \in DOMAIN Trimmed.columns :
          /\ Trimmed.columns[c] = "assets"
          /\ cleaned_data.table.columns[c] = "current_assets"

\* C6: a column whose label matches synonyms of more than one canonical key
\* is renamed to the first such key in the order of the mapping table; every
\* column is renamed to at most one canonical key, and a column matching no
\* synonym keeps its label.
C6_FirstMatchingKeyWins ==
    Cleaned =>
        /\ Len(cleaned_data.table.columns) = Len(Trimmed.columns)
        /\ \A c \in DOMAIN Trimmed.columns :
              LET label == Trimmed.columns[c]
              IN  cleaned_data.table.columns[c] =
                    (IF MatchingKeys(label) = {} THEN label
                     ELSE column_mappings[FirstKey(label)].standard_name)

LastKey(label) == CHOOSE k \in MatchingKeys(label) : \A j \in MatchingKeys(label) : k >= j

\* C6, as the code has it: the last matching key in the order of the table.
C6_LastMatchingKeyWins ==
    Cleaned =>
        /\ Len(cleaned_data.table.columns) = Len(Trimmed.columns)
        /\ \A c \in DOMAIN Trimmed.columns :
              LET label == Trimmed.columns[c]
              IN  cleaned_data.table.columns[c] =
                    (IF MatchingKeys(label) = {} THEN label
                     ELSE column_mappings[LastKey(label)].standard_name)

C6_WitnessSeveralKeysLastChosen ==
    /\ Cleaned
    /\ \E c \in DOMAIN Trimmed.columns :
          LET label == Trimmed.columns[c]
          IN  /\ Cardinality(MatchingKeys(label)) >= 2
              /\ cleaned_data.table.columns[c] = column_mappings[LastKey(label)].standard_name
              /\ cleaned_data.table.columns[c] # column_mappings[FirstKey(label)].standard_name

\* the clean step has run, with or without an error
CleanAttempted == data_pc # "uploaded"

EmptyAfterTrimming == df.is_none \/ IsEmpty(Trimmed)

\* C13: clean_financial_data signals the empty-input error whenever the
\* table is empty after all-empty rows and all-empty columns are dropped,
\* a missing table and a table with rows of empty cells only included; it
\* never returns a cleaned table in that case.
C13_EmptyAfterTrimmingRaises ==
    (CleanAttempted /\ EmptyAfterTrimming)
        => (cleaned_data.raised = "ValueError" /\ data_pc = "raised")

\* C13, as far as the code goes: the error is signalled exactly when the
\* table is missing or empty before anything is dropped.
C13_EmptyBeforeTrimmingRaises ==
    CleanAttempted =>
        ((cleaned_data.raised = "ValueError") <=> (df.is_none \/ IsEmpty(df)))

C13_WitnessBlankRowsCleaned ==
    /\ data_pc = "cleaned"
    /\ ~df.is_none
    /\ df.rows # <<>>
    /\ df.columns # <<>>
    /\ IsEmpty(Trimmed)
    /\ cleaned_data.raised = NoRaise
    /\ IsEmpty(cleaned_data.table)

\* the table as the conversion loop receives it
Mapped == _map_column_names(Trimmed)

CanonicalNumeric(label) == \E k \in DOMAIN numeric_columns : numeric_columns[k] = label

\* what the claim makes of a cell: its number, 0 when it is missing or
\* does not parse once the currency symbols and separators are stripped
NumberOrZero(cell) ==
    CASE cell.kind = "nan" -> Num(0)
      [] cell.kind = "num" -> cell
      [] OTHER -> Num(ToNumericOrZero(StripCurrency(cell.text)))

C14_UniqueNumericColumnsHoldNumbers ==
    (CleanAttempted /\ ~df.is_none /\ ~IsEmpty(df)) =>
        /\ cleaned_data.raised = NoRaise
        /\ LET t == cleaned_data.table
           IN  \A r \in DOMAIN t.rows :
                  \E r0 \in DOMAIN Mapped.rows :
                     \A c \in DOMAIN t.columns :
                        (/\ CanonicalNumeric(t.columns[c])
                         /\ \A c2 \in DOMAIN t.columns : t.columns[c2] = t.columns[c] => c2 = c)
                           => t.rows[r][c] = NumberOrZero(Mapped.rows[r0][c])

C14_WitnessUnparsedCellIsZero ==
    /\ data_pc = "cleaned"
    /\ Len(cleaned_data.table.rows) = 1
    /\ \E c \in DOMAIN cleaned_data.table.columns :
          /\ Mapped.rows[1][c] = Text("n/a")
          /\ CanonicalNumeric(cleaned_data.table.columns[c])
          /\ cleaned_data.table.rows[1][c] = Num(0)

C30_ColumnsRenamedNotMerged ==
    data_pc \in {"cleaned", "classified"} =>
        /\ Len(cleaned_data.table.columns) = Len(Trimmed.columns)
        /\ \A c \in DOMAIN Trimmed.columns :
              LET matched == {k \in DOMAIN column_mappings : Matches(k, Trimmed.columns[c])}
              IN  cleaned_data.table.columns[c] =
                     IF matched = {} THEN Trimmed.columns[c]
                     ELSE column_mappings[CHOOSE k \in matched : \A j \in matched : j <= k]
                             .standard_name

-----------------------------------------------------------------------------
(* Properties of extract_financial_metrics and validate_financial_data *)

Extracted == metrics_pc = "extracted"
Validated == metrics_pc \in {"validated", "extracted"}

\* the cell the metric is read from, when there is one
HasSelectedCell(metric) ==
    /\ ~metrics_df.is_none
    /\ metrics_df.rows # <<>>
    /\ HasColumn(metrics_df, metric)

SelectedCell(metric) ==
    metrics_df.rows[LatestRow(metrics_df)][ColumnOf(metrics_df, metric)]

Extractable(metric) ==
    /\ HasSelectedCell(metric)
    /\ SelectedCell(metric).kind = "num"
    /\ SelectedCell(metric).num # RZero

Has(metric) == metric \in DOMAIN metrics

\* the keys the statement-specific part of the function has computed
Computed(metric) ==
    \/ /\ metrics_type = "income_statement"
       /\ \/ metric = "gross_profit" /\ Has("revenue") /\ Has("cogs")
          \/ metric = "ebit" /\ Has("gross_profit") /\ Has("operating_expenses")
    \/ /\ metrics_type = "balance_sheet"
       /\ metric = "equity" /\ Has("total_assets") /\ Has("total_liabilities")
       /\ metrics["equity"] = RSub(metrics["total_assets"], metrics["total_liabilities"])

\* C17: a core metric key is in the output directly from the table only if
\* the column exists and the selected row's value is present and not zero:
\* a zero or missing cell gives an absent key, and no directly extracted
\* metric has the value 0.
C17_DirectMetricsPresentAndNonZero ==
    Extracted =>
        /\ DOMAIN metrics \subseteq {MetricNames[k] : k \in DOMAIN MetricNames}
        /\ \A metric \in DOMAIN metrics :
              ~Computed(metric) =>
                 /\ Extractable(metric)
                 /\ metrics[metric] = SelectedCell(metric).num
                 /\ metrics[metric] # RZero

C17_WitnessZeroAndMissingCellsAbsent ==
    /\ Extracted
    /\ Len(metrics_df.rows) = 2
    /\ HasColumn(metrics_df, "year")
    /\ LatestRow(metrics_df) = 1
    /\ HasSelectedCell("operating_expenses")
    /\ SelectedCell("operating_expenses") = Float(RZero)
    /\ ~Has("operating_expenses")
    /\ Has("revenue")
    /\ metrics_df.rows[2][ColumnOf(metrics_df, "operating_expenses")].num # RZero

C17_WitnessMissingCellAbsent ==
    /\ Extracted
    /\ HasSelectedCell("cogs")
    /\ SelectedCell("cogs") = NaN
    /\ ~Has("cogs")
    /\ Has("revenue")

\* |x|
Magnitude(x) == IF RLess(x, RZero) THEN RNeg(x) ELSE x

\* C18: for statement type balance_sheet, whenever total_assets and
\* total_liabilities are both in the extracted set, the set contains equity
\* with |equity - (total_assets - total_liabilities)| <= 0.01: equity is the
\* computed value when the extracted one is absent or differs from it by
\* more than 0.01, and the extracted equity otherwise.
C18_EquityWithinTolerance ==
    (Extracted /\ metrics_type = "balance_sheet"
       /\ Has("total_assets") /\ Has("total_liabilities")) =>
        LET calculated == RSub(metrics["total_assets"], metrics["total_liabilities"])
        IN  /\ Has("equity")
            /\ RLeq(Magnitude(RSub(metrics["equity"], calculated)), Rat(1, 100))
            /\ metrics["equity"] =
                 (IF /\ Extractable("equity")
                     /\ RLeq(Magnitude(RSub(SelectedCell("equity").num, calculated)),
                             Rat(1, 100))
                  THEN SelectedCell("equity").num
                  ELSE calculated)

C18_WitnessEquityKeptWithinTolerance ==
    /\ Extracted
    /\ metrics_type = "balance_sheet"
    /\ Has("total_assets")
    /\ Has("total_liabilities")
    /\ Has("equity")
    /\ metrics["equity"] = Rat(12001, 200)
    /\ metrics["equity"] # RSub(metrics["total_assets"], metrics["total_liabilities"])

C18_WitnessEquityReplaced ==
    /\ Extracted
    /\ metrics_type = "balance_sheet"
    /\ Extractable("equity")
    /\ SelectedCell("equity").num = Rat(121, 2)
    /\ Has("equity")
    /\ metrics["equity"] = RInt(60)

C18_WitnessEquityAdded ==
    /\ Extracted
    /\ metrics_type = "balance_sheet"
    /\ ~HasColumn(metrics_df, "equity")
    /\ Has("equity")
    /\ metrics["equity"] = RInt(-60)

MissingOrEmpty == metrics_df.is_none \/ IsEmpty(metrics_df)

\* C19: validate_financial_data returns is_valid = false, with an error
\* entry, if and only if the table is missing or empty; every other finding
\* is a warning and leaves is_valid = true with no error entry.
C19_InvalidIffMissingOrEmpty ==
    Validated =>
        /\ ~validation.is_valid <=> MissingOrEmpty
        /\ validation.is_valid <=> validation.errors = <<>>

\* C19, as far as the code goes: the same, except that a table in which two
\* columns bear one name is invalid too unless the type is cash_flow.
C19_InvalidIffMissingEmptyOrDuplicated ==
    Validated =>
        /\ ~validation.is_valid <=>
              \/ MissingOrEmpty
              \/ /\ metrics_type # "cash_flow"
                 /\ \E c \in DOMAIN metrics_df.columns :
                       Duplicated(metrics_df, metrics_df.columns[c])
        /\ validation.is_valid <=> validation.errors = <<>>

C19_WitnessDuplicatedColumnInvalid ==
    /\ Validated
    /\ ~MissingOrEmpty
    /\ Duplicated(metrics_df, "revenue")
    /\ ~validation.is_valid
    /\ Len(validation.errors) = 1

C19_WitnessWarningsLeaveValid ==
    /\ Validated
    /\ ~MissingOrEmpty
    /\ Len(validation.warnings) >= 2
    /\ validation.is_valid
    /\ validation.errors = <<>>

-----------------------------------------------------------------------------
(* Properties of machine_learning_credit_scoring and merton_structural_model *)

Scored == ml_score.computed

\* the value read for a ratio: 0 when the set does not hold it
ReadRatio(ratio) ==
    IF ratio \in DOMAIN financial_ratios THEN financial_ratios[ratio] ELSE RZero

SatisfiedConditions ==
    {c \in {"current_ratio", "debt_to_equity", "return_on_assets", "net_profit_margin"} :
        \/ c = "current_ratio" /\ RLess(Rat(3, 2), ReadRatio(c))
        \/ c = "debt_to_equity" /\ RLess(ReadRatio(c), RInt(2))
        \/ c = "return_on_assets" /\ RLess(Rat(1, 20), ReadRatio(c))
        \/ c = "net_profit_margin" /\ RLess(Rat(1, 10), ReadRatio(c))}

\* C21: the credit score is 25 times the number of satisfied conditions
\* among current_ratio > 1.5, debt_to_equity < 2.0, return_on_assets > 0.05
\* and net_profit_margin > 0.10, all strict and a missing ratio read as 0;
\* it is one of 0, 25, 50, 75, 100.
C21_ScoreIs25PerSatisfiedCondition ==
    Scored =>
        /\ ml_score.score = 25 * Cardinality(SatisfiedConditions)
        /\ ml_score.score \in {0, 25, 50, 75, 100}

C21_WitnessThresholdValuesScoreNothing ==
    /\ Scored
    /\ {"current_ratio", "debt_to_equity", "return_on_assets", "net_profit_margin"}
          \subseteq DOMAIN financial_ratios
    /\ \A c \in DOMAIN financial_ratios \ {"quick_ratio"} :
          financial_ratios[c] = Threshold(c)
    /\ ml_score.score = 0

C21_WitnessMissingDebtToEquityScores ==
    /\ Scored
    /\ financial_ratios = <<>>
    /\ ml_score.score = 25

C21_WitnessFullScore ==
    /\ Scored
    /\ ml_score.score = 100

MertonReturned == merton_output.computed

NonPositiveValueOrDebt ==
    merton_input.company_value <= 0 \/ merton_input.debt_face_value <= 0

IsFallback ==
    /\ merton_output.probability_default = Exact(Rat(1, 2))
    /\ merton_output.distance_to_default = Exact(RZero)

\* d2 of the Merton formula for V > 0, D > 0, T > 0
ExpectedD2 ==
    LET V == merton_input.company_value
        D == merton_input.debt_face_value
        T == merton_input.time_to_maturity
        sigma == merton_input.volatility
        root == RInt(ISqrt(T))
        divisor == RMul(sigma, root)
        drift == RMul(RAdd(merton_input.risk_free_rate,
                           RDiv(RMul(sigma, sigma), RInt(2))), RInt(T))
    IN  Affine(RDiv(ROne, divisor), Rat(V, D), RSub(RDiv(drift, divisor), divisor))

WellFormed ==
    /\ merton_input.company_value > 0
    /\ merton_input.debt_face_value > 0
    /\ merton_input.time_to_maturity > 0

\* C22: merton_structural_model returns the fallback (0.5, 0) whenever
\* company value V <= 0 or debt face value D <= 0, and (CDF(-d2), d2) for
\* well-formed inputs.
C22_FallbackOnNonPositiveElseFormula ==
    MertonReturned =>
        /\ NonPositiveValueOrDebt => IsFallback
        /\ WellFormed =>
              /\ merton_output.distance_to_default = ExpectedD2
              /\ merton_output.probability_default =
                    [kind |-> "cdf", of |-> FloatNeg(ExpectedD2)]

\* C22, as far as the code goes: the fallback is returned when D = 0 and
\* only then; nan or an infinity comes back for the other non-positive
\* values, and the formula's value for well-formed inputs.
C22_FallbackOnlyOnZeroDebt ==
    MertonReturned =>
        /\ IsFallback <=> merton_input.debt_face_value = 0
        /\ WellFormed =>
              /\ merton_output.distance_to_default = ExpectedD2
              /\ merton_output.probability_default =
                    [kind |-> "cdf", of |-> FloatNeg(ExpectedD2)]

C22_WitnessNegativeValueGivesNaN ==
    /\ MertonReturned
    /\ merton_input.company_value < 0
    /\ merton_input.debt_face_value > 0
    /\ merton_input.time_to_maturity = 1
    /\ merton_output.probability_default = FloatNaN
    /\ merton_output.distance_to_default = FloatNaN

C22_WitnessZeroValueGivesCertainDefault ==
    /\ MertonReturned
    /\ merton_input.company_value = 0
    /\ merton_input.debt_face_value > 0
    /\ merton_output.probability_default = Exact(ROne)
    /\ merton_output.distance_to_default = FloatNegInf

C22_WitnessZeroDebtGivesFallback ==
    /\ MertonReturned
    /\ merton_input.debt_face_value = 0
    /\ IsFallback

C22_WitnessWellFormed ==
    /\ MertonReturned
    /\ WellFormed
    /\ merton_input.company_value = 8
    /\ merton_input.time_to_maturity = 4
    /\ merton_output.distance_to_default.kind = "affine"

-----------------------------------------------------------------------------
(* Properties of the risk models *)

\* C8: altman_z_score returns exactly 0, without a division error, whenever
\* total_assets = 0, whatever the other five arguments are.
C8_ZeroAssetsGiveZero ==
    (z_score.computed /\ altman_input.total_assets = 0)
        => (z_score.result.raised = NoRaise /\ z_score.result.value = RZero)

C8_WitnessZeroAssets ==
    /\ z_score.computed
    /\ altman_input.total_assets = 0
    /\ altman_input.total_liabilities = 0
    /\ altman_input.working_capital # 0
    /\ altman_input.ebit # 0
    /\ z_score.result.value = RZero

\* C9: two simulations with identical (base_cashflow, volatility, periods,
\* simulations) return identical matrices, whatever happened before or
\* between them: a simulation given the arguments of the session's first
\* one returns what the first one returned.
C9_SameArgumentsSameMatrix ==
    (mc_first.called /\ mc_input = mc_first.input) => mc_output = mc_first.output

C9_WitnessRepeatedInAnotherGeneratorState ==
    /\ mc_first.called
    /\ mc_first.repeated
    /\ mc_input = mc_first.input
    /\ mc_first.state_found # SeedState(Seed)
    /\ Len(mc_output) = 2
    /\ mc_output[2][1] # mc_output[1][1]

-----------------------------------------------------------------------------
(* Properties of the ratio analysis *)

NonNegative(x) == x.n >= 0

\* C10: for every metric set, comprehensive_ratio_analysis returns
\* current_ratio >= 0 and debt_to_equity >= 0.
C10_RatiosNeverNegative ==
    ratios.computed =>
        /\ NonNegative(ratios.values["current_ratio"])
        /\ NonNegative(ratios.values["debt_to_equity"])

\* C10, amended: the same for every metric set whose current_assets,
\* current_liabilities and total_liabilities are not negative (an absent
\* metric counting as 0).
C10_RatiosNonNegativeForNonNegativeMetrics ==
    (/\ ratios.computed
     /\ Get(financial_data, "current_assets", 0) >= 0
     /\ Get(financial_data, "current_liabilities", 0) >= 0
     /\ Get(financial_data, "total_liabilities", 0) >= 0)
        => /\ NonNegative(ratios.values["current_ratio"])
           /\ NonNegative(ratios.values["debt_to_equity"])

C10_WitnessPositiveRatios ==
    /\ ratios.computed
    /\ Get(financial_data, "current_assets", 0) > 0
    /\ Get(financial_data, "current_liabilities", 0) > 0
    /\ Get(financial_data, "total_liabilities", 0) > 0
    /\ Get(financial_data, "equity", 0) < 0
    /\ ratios.values["current_ratio"] = ROne
    /\ ratios.values["debt_to_equity"] = RZero

C10_NegativeCurrentRatio ==
    /\ ratios.computed
    /\ Get(financial_data, "total_liabilities", 0) > 0
    /\ Get(financial_data, "equity", 0) > 0
    /\ Get(financial_data, "total_assets", 0) > 0
    /\ ~NonNegative(ratios.values["current_ratio"])

\* the nine ratios: [ratio, numerator metric, denominator metric]
RatioFormulas ==
    {<<"current_ratio", "current_assets", "current_liabilities">>,
     <<"quick_ratio", "current_assets", "current_liabilities">>,
     <<"return_on_assets", "net_income", "total_assets">>,
     <<"return_on_equity", "net_income", "equity">>,
     <<"net_profit_margin", "net_income", "revenue">>,
     <<"debt_to_equity", "total_liabilities", "equity">>,
     <<"debt_to_assets", "total_liabilities", "total_assets">>,
     <<"asset_turnover", "revenue", "total_assets">>,
     <<"receivables_turnover", "revenue", "accounts_receivable">>}

Metric(key) == Get(financial_data, key, 0)

\* C11: for every metric set, each of the nine ratios whose denominator
\* metric is 0 or absent is returned as 0, and otherwise equals
\* numerator / denominator.
C11_ZeroDenominatorElseQuotient ==
    ratios.computed =>
        /\ DOMAIN ratios.values = {f[1] : f \in RatioFormulas}
        /\ \A f \in RatioFormulas :
              ratios.values[f[1]] =
                 (IF Metric(f[3]) = 0 THEN RZero ELSE Rat(Metric(f[2]), Metric(f[3])))

\* C11, as the code has it: only the two liquidity ratios divide by every
\* denominator other than 0; the other seven are 0 for every denominator
\* that is not above 0.
C11_QuotientOnlyAbovePositiveDenominator ==
    ratios.computed =>
        /\ DOMAIN ratios.values = {f[1] : f \in RatioFormulas}
        /\ \A f \in RatioFormulas :
              ratios.values[f[1]] =
                 (IF Metric(f[3]) = 0 THEN RZero
                  ELSE IF Metric(f[3]) < 0 /\ f[3] # "current_liabilities" THEN RZero
                  ELSE Rat(Metric(f[2]), Metric(f[3])))

C11_WitnessNegativeEquityGivesZero ==
    /\ ratios.computed
    /\ Metric("equity") < 0
    /\ Metric("net_income") > 0
    /\ Metric("current_liabilities") < 0
    /\ ratios.values["return_on_equity"] = RZero
    /\ ratios.values["current_ratio"] # RZero

-----------------------------------------------------------------------------
(* Properties of assess_against_benchmarks *)

Assessed == assessment.computed

\* the label the benchmark table gives a value of the ratio
LabelFor(ratio, value) ==
    IF ratio \notin DOMAIN INDUSTRY_BENCHMARKS THEN "No Benchmark"
    ELSE IF RLess(value, INDUSTRY_BENCHMARKS[ratio].min) THEN "Below Benchmark"
    ELSE IF /\ INDUSTRY_BENCHMARKS[ratio].bounded
            /\ RLess(INDUSTRY_BENCHMARKS[ratio].max, value) THEN "Above Benchmark"
    ELSE "Within Benchmark"

\* C20: the assessment has the keys of the ratio bundle; a ratio with a
\* benchmark entry is "Below Benchmark" when value < min, "Above Benchmark"
\* when value > max and "Within Benchmark" otherwise, both bounds included,
\* and a ratio with no benchmark entry is "No Benchmark".
C20_AssessmentKeyedAndLabelledByBounds ==
    Assessed =>
        /\ DOMAIN assessment.labels = DOMAIN benchmark_ratios
        /\ \A ratio \in DOMAIN benchmark_ratios :
              assessment.labels[ratio] = LabelFor(ratio, benchmark_ratios[ratio])

C20_WitnessBoundsIncluded ==
    /\ Assessed
    /\ DOMAIN benchmark_ratios = {"current_ratio", "debt_to_equity", "roe", "quick_ratio"}
    /\ benchmark_ratios["current_ratio"] = Rat(15, 10)
    /\ assessment.labels["current_ratio"] = "Within Benchmark"
    /\ benchmark_ratios["debt_to_equity"] = RInt(2)
    /\ assessment.labels["debt_to_equity"] = "Within Benchmark"
    /\ benchmark_ratios["roe"] = Rat(14, 100)
    /\ assessment.labels["roe"] = "Below Benchmark"
    /\ assessment.labels["quick_ratio"] = "No Benchmark"

C20_WitnessAboveAndUnbounded ==
    /\ Assessed
    /\ "current_ratio" \in DOMAIN benchmark_ratios
    /\ assessment.labels["current_ratio"] = "Above Benchmark"
    /\ "roa" \in DOMAIN benchmark_ratios
    /\ benchmark_ratios["roa"] = Rat(20001, 20)
    /\ assessment.labels["roa"] = "Within Benchmark"

\* the assessment comprehensive_ratio_analysis attaches follows the same rule
C20_AnalysisAssessmentByBounds ==
    ratios.computed =>
        /\ DOMAIN ratios.assessment = DOMAIN ratios.values
        /\ \A ratio \in DOMAIN ratios.values :
              ratios.assessment[ratio] = LabelFor(ratio, ratios.values[ratio])

====
